---- MODULE Spec2Model ----
(***************************************************************************)
(* A model of phiauto's keyframe tracks (src/bamboo.py) and of its plan     *)
(* cache format (src/algo/algo_base.py).                                    *)
(*                                                                          *)
(* Numbers.  Track timestamps are Python floats compared with              *)
(* math.isclose (rel_tol = 1e-09, abs_tol = 0).  The model keeps them as    *)
(* integers: isclose is scale free, so timestamps around RelTolInv = 10^9   *)
(* have a tolerance of one or two units and the tolerance test is exact.    *)
(* Track values are integers and the result of an evaluation is an exact    *)
(* rational [num, den] in lowest terms.                                     *)
(***************************************************************************)
EXTENDS Integers, Sequences, FiniteSets, TLC

VARIABLES
    joints,     \* LivingBamboo.joints: sequence of [timestamp, value, easing]
    last,       \* the last call made on the track: its arguments and its outcome
    legit,      \* TRUE while every embed so far was called with start < end on a non-empty track
    screen,     \* cache: the ScreenUtil handed to dump_data, [width, height]
    timeline,   \* cache: the RawAnswerType handed to dump_data
    blob,       \* cache: the bytes dump_data returned
    loaded,     \* cache: what load_data made of blob
    cpc,        \* cache: position of the dump/load scenario
    geo,        \* geometry: the last call of det, intersect or ScreenUtil.remap and its result
    chart,      \* pec: the PecChart under construction and the Chart delivered from it
    planning,   \* main window: the plan cache, the selected options and the last run of the planner
    window      \* main window: goButton's connections, the autoplay worker and its thread

vars == <<joints, last, legit, screen, timeline, blob, loaded, cpc, geo, chart, planning, window>>
bambooVars == <<joints, last, legit>>
cacheVars == <<screen, timeline, blob, loaded, cpc>>
geomVars == <<geo>>
pecVars == <<chart>>
guiVars == <<planning, window>>

----------------------------------------------------------------------------
(* Bounds of the model *)

MaxJoints == 3

(* math.isclose's default rel_tol is 1e-09; RelTolInv is its inverse. *)
RelTolInv == 1000000000

Times == {0, RelTolInv, RelTolInv + 1, 2 * RelTolInv}
QueryTimes == Times \cup {RelTolInv \div 2, 3 * (RelTolInv \div 2), 2 * RelTolInv + 1}
Values == {0, 1}
Easings == {"LVALUE", "LINEAR"}
EasingArgs == Easings \cup {"None"}

----------------------------------------------------------------------------
(* Arithmetic helpers *)

Abs(x) == IF x < 0 THEN -x ELSE x
Max(a, b) == IF a >= b THEN a ELSE b

RECURSIVE GCD(_, _)
GCD(a, b) == IF b = 0 THEN a ELSE GCD(b, a % b)

(* The rational n/d (d > 0) in lowest terms. *)
Rat(n, d) == LET g == GCD(Abs(n), d) IN [num |-> n \div g, den |-> d \div g]
IntRat(v) == [num |-> v, den |-> 1]

----------------------------------------------------------------------------
(* src/bamboo.py *)

(* easing.LVALUE and the linear easing, applied to a ratio r = [num, den]. *)
LVALUE(r) == IF r.num < r.den THEN IntRat(0) ELSE IntRat(1)
LINEAR(r) == r
ApplyEasing(e, r) == IF e = "LVALUE" THEN LVALUE(r) ELSE LINEAR(r)

equal(a, b) == Abs(a - b) <= Max(Abs(a), Abs(b)) \div RelTolInv

Joint(t, v, e) == [timestamp |-> t, value |-> v, easing |-> e]

(* Python list indexing, 0-based, negative indices counted from the end. *)
PyAt(s, i) == IF i < 0 THEN s[Len(s) + i + 1] ELSE s[i + 1]
(* list.insert(i, x) for 0 <= i <= len *)
PyInsert(s, i, x) == SubSeq(s, 1, i) \o <<x>> \o SubSeq(s, i + 1, Len(s))

RECURSIVE BisectLoop(_, _, _, _)
BisectLoop(a, x, lo, hi) ==
    IF lo < hi
    THEN LET mid == (lo + hi) \div 2
         IN IF PyAt(a, mid).timestamp < x
            THEN BisectLoop(a, x, mid + 1, hi)
            ELSE BisectLoop(a, x, lo, mid)
    ELSE lo

(* bisect.bisect_left(self.joints, x, key=lambda j: j.timestamp) *)
bisect_left(a, x) == BisectLoop(a, x, 0, Len(a))

Done(js) == [raised |-> FALSE, joints |-> js]
IndexError(js) == [raised |-> TRUE, joints |-> js]

(* LivingBamboo.cut *)
cut(js, timestamp, value, easingArg) ==
    LET easing == IF easingArg = "None" THEN "LVALUE" ELSE easingArg
        insert_point == bisect_left(js, timestamp)
        n == Len(js)
        overwrite(i) == [js EXCEPT ![i + 1] = [@ EXCEPT !.value = value, !.easing = easing]]
        inserted == PyInsert(js, insert_point, Joint(timestamp, value, easing))
    IN  IF n = 0 THEN Done(<<Joint(timestamp, value, easing)>>)
        ELSE IF insert_point = n
        THEN IF equal(PyAt(js, insert_point - 1).timestamp, timestamp)
             THEN Done(overwrite(insert_point - 1))
             ELSE Done(inserted)
        ELSE IF equal(PyAt(js, insert_point).timestamp, timestamp)
             THEN Done(overwrite(insert_point))
             ELSE IF insert_point > 0 /\ equal(PyAt(js, insert_point - 1).timestamp, timestamp)
                  THEN Done(overwrite(insert_point - 1))
                  ELSE Done(inserted)

(* LivingBamboo.embed *)
embed(js, start, end, end_value, easing) ==
    LET insert_point == bisect_left(js, start)
        n == Len(js)
    IN  IF insert_point < n /\ equal(PyAt(js, insert_point).timestamp, start)
        THEN LET left_easing == PyAt(js, insert_point).easing
                 js1 == [js EXCEPT ![insert_point + 1].easing = easing]
             IN IF insert_point >= n - 1 \/ ~equal(PyAt(js1, insert_point + 1).timestamp, end)
                THEN Done(PyInsert(js1, insert_point + 1, Joint(end, end_value, left_easing)))
                ELSE Done(js1)
        ELSE IF insert_point = n
        THEN IF n = 0
             THEN IndexError(js)
             ELSE LET value == PyAt(js, -1).value
                      js1 == Append(js, Joint(start, value, easing))
                  IN Done(Append(js1, Joint(end, end_value, PyAt(js1, -2).easing)))
        ELSE IF equal(PyAt(js, insert_point).timestamp, end)
             THEN LET js1 == [js EXCEPT ![insert_point + 1].value = end_value]
                  IN Done(PyInsert(js1, insert_point,
                                   Joint(start, PyAt(js1, insert_point - 1).value, easing)))
             ELSE LET left_easing == PyAt(js, insert_point - 1).easing
                      js1 == PyInsert(js, insert_point, Joint(end, end_value, left_easing))
                  IN Done(PyInsert(js1, insert_point,
                                   Joint(start, PyAt(js1, insert_point - 1).value, easing)))

Value(r) == [raised |-> FALSE, val |-> r]
EvalError == [raised |-> TRUE, val |-> IntRat(0)]

(* matmul with the head clamp lost: a query before the first joint reads
   joints[left] with left = -1, the last joint. *)
matmul_headwrap(js, time) ==
    LET right == bisect_left(js, time)
        left == right - 1
        n == Len(js)
    IN  IF right = n
        THEN IF n = 0 THEN EvalError ELSE Value(IntRat(PyAt(js, left).value))
        ELSE IF PyAt(js, right).timestamp = time
        THEN Value(IntRat(PyAt(js, right).value))
        ELSE IF right = 0
        THEN Value(IntRat(PyAt(js, left).value))
        ELSE LET start == PyAt(js, left)
                 end == PyAt(js, right)
             IN IF end.timestamp = start.timestamp
                THEN EvalError
                ELSE LET t == ApplyEasing(start.easing,
                                          Rat(time - start.timestamp, end.timestamp - start.timestamp))
                     IN Value(Rat(start.value * t.den + (end.value - start.value) * t.num, t.den))

(* matmul interpolating with the easing of the right joint instead of the left. *)
matmul_righteasing(js, time) ==
    LET right == bisect_left(js, time)
        left == right - 1
        n == Len(js)
    IN  IF right = n
        THEN IF n = 0 THEN EvalError ELSE Value(IntRat(PyAt(js, left).value))
        ELSE IF PyAt(js, right).timestamp = time \/ right = 0
        THEN Value(IntRat(PyAt(js, right).value))
        ELSE LET start == PyAt(js, left)
                 end == PyAt(js, right)
             IN IF end.timestamp = start.timestamp
                THEN EvalError
                ELSE LET t == ApplyEasing(end.easing,
                                          Rat(time - start.timestamp, end.timestamp - start.timestamp))
                     IN Value(Rat(start.value * t.den + (end.value - start.value) * t.num, t.den))

(* LivingBamboo.__matmul__ *)
matmul(js, time) ==
    LET right == bisect_left(js, time)
        left == right - 1
        n == Len(js)
    IN  IF right = n
        THEN IF n = 0 THEN EvalError ELSE Value(IntRat(PyAt(js, left).value))
        ELSE IF PyAt(js, right).timestamp = time \/ right = 0
        THEN Value(IntRat(PyAt(js, right).value))
        ELSE LET start == PyAt(js, left)
                 end == PyAt(js, right)
             IN IF end.timestamp = start.timestamp
                THEN EvalError
                ELSE LET t == ApplyEasing(start.easing,
                                          Rat(time - start.timestamp, end.timestamp - start.timestamp))
                     IN Value(Rat(start.value * t.den + (end.value - start.value) * t.num, t.den))

----------------------------------------------------------------------------
(* The track as a state machine: a LivingBamboo and the calls made on it *)

NoCall == [op |-> "new", a |-> 0, b |-> 0, v |-> 0, e |-> "None",
           raised |-> FALSE, res |-> IntRat(0)]

(* Before any call of the geometry functions, and before any chart is read *)
NoGeo == [fn |-> "none", done |-> FALSE, ar |-> "exact", width |-> 0, height |-> 0,
          args |-> <<>>, none |-> FALSE, res |-> [re |-> IntRat(0), im |-> IntRat(0)]]
NoChart == [pc |-> "idle"]
(* Before the main window is shown *)
NoPlanning == [pc |-> "none"]
NoWindow == [pc |-> "none"]

Init ==
    /\ joints = <<>>
    /\ last = NoCall
    /\ legit = TRUE
    /\ screen = [width |-> <<0, 0>>, height |-> <<0, 0>>]
    /\ timeline = <<>>
    /\ blob = <<>>
    /\ loaded = [ok |-> FALSE, width |-> <<0, 0>>, height |-> <<0, 0>>, ans |-> <<>>]
    /\ cpc = "idle"
    /\ geo = NoGeo
    /\ chart = NoChart
    /\ planning = NoPlanning
    /\ window = NoWindow

Cut(t, v, ea) ==
    /\ Len(joints) < MaxJoints
    /\ LET r == cut(joints, t, v, ea)
       IN /\ joints' = r.joints
          /\ last' = [op |-> "cut", a |-> t, b |-> 0, v |-> v, e |-> ea,
                      raised |-> r.raised, res |-> IntRat(0)]
    /\ UNCHANGED <<legit, cacheVars, geomVars, pecVars, guiVars>>

Embed(ts, te, ve, e) ==
    /\ Len(joints) < MaxJoints
    /\ LET r == embed(joints, ts, te, ve, e)
       IN /\ joints' = r.joints
          /\ last' = [op |-> "embed", a |-> ts, b |-> te, v |-> ve, e |-> e,
                      raised |-> r.raised, res |-> IntRat(0)]
    /\ legit' = (legit /\ ts < te /\ Len(joints) > 0)
    /\ UNCHANGED <<cacheVars, geomVars, pecVars, guiVars>>

Eval(tau) ==
    /\ LET r == matmul(joints, tau)
       IN last' = [op |-> "eval", a |-> tau, b |-> 0, v |-> 0, e |-> "None",
                   raised |-> r.raised, res |-> r.val]
    /\ UNCHANGED <<joints, legit, cacheVars, geomVars, pecVars, guiVars>>

Next ==
    \/ \E t \in Times, v \in Values, ea \in EasingArgs : Cut(t, v, ea)
    \/ \E ts \in Times, te \in Times, ve \in Values, e \in Easings : Embed(ts, te, ve, e)
    \/ \E tau \in QueryTimes : Eval(tau)

Spec == Init /\ [][Next]_vars

----------------------------------------------------------------------------
(* Properties of the track *)

StrictlySorted(js) == \A i \in 1..(Len(js) - 1) : js[i].timestamp < js[i + 1].timestamp
NoTwoEqual(js) ==
    \A i \in 1..Len(js), j \in 1..Len(js) : i # j => ~equal(js[i].timestamp, js[j].timestamp)
(* The ordering of the data model: strictly increasing modulo equal(). *)
IsTrack(js) == StrictlySorted(js) /\ NoTwoEqual(js)

(* Indices of the joints of js whose timestamp is equal() to t. *)
Hits(js, t) == {i \in 1..Len(js) : equal(js[i].timestamp, t)}
(* Some joint of js lies strictly between ts and te. *)
Overlaps(js, ts, te) == \E i \in 1..Len(js) : ts < js[i].timestamp /\ js[i].timestamp < te

(* C2: in every state reached by cut and embed calls (embed with start < end
   on a non-empty track) the joints are strictly increasing in timestamp and
   no two joints are equal() within the tolerance. *)
C2_JointsStrictlyIncreasing == legit => IsTrack(joints)

(* C3: clamping. With at least one joint and strictly increasing timestamps,
   a query at or before the first timestamp returns the first joint's value
   and a query at or after the last timestamp returns the last joint's value. *)
C3_Clamping ==
    (Len(joints) >= 1 /\ StrictlySorted(joints)) =>
        \A tau \in QueryTimes :
            /\ tau <= joints[1].timestamp
                 => matmul(joints, tau) = Value(IntRat(joints[1].value))
            /\ tau >= joints[Len(joints)].timestamp
                 => matmul(joints, tau) = Value(IntRat(joints[Len(joints)].value))

C3_Witness ==
    /\ last.op = "eval"
    /\ Len(joints) >= 2
    /\ StrictlySorted(joints)
    /\ joints[1].value # joints[Len(joints)].value
    /\ last.a < joints[1].timestamp
    /\ ~last.raised
    /\ last.res = IntRat(joints[1].value)

(* The interpolated value between joints a and b at tau, written out per easing. *)
Interp(a, b, tau) ==
    IF a.easing = "LVALUE"
    THEN IntRat(a.value)
    ELSE Rat(a.value * (b.timestamp - a.timestamp) + (b.value - a.value) * (tau - a.timestamp),
             b.timestamp - a.timestamp)

(* C4: interpolation. With strictly increasing timestamps, a query strictly
   between joints i and i+1 returns v_i + (v_{i+1} - v_i) * easing_i(ratio)
   with the easing of the LEFT joint, and a query at a joint's timestamp
   returns that joint's value; joints (0,0) and (1,1) give 1/2 at the midpoint
   under linear easing and 0 under LVALUE; a cut without easing stores LVALUE. *)
C4_Interpolation ==
    /\ StrictlySorted(joints) =>
         \A tau \in QueryTimes : \A i \in 1..Len(joints) :
            /\ tau = joints[i].timestamp
                 => matmul(joints, tau) = Value(IntRat(joints[i].value))
            /\ (i < Len(joints) /\ joints[i].timestamp < tau /\ tau < joints[i + 1].timestamp)
                 => matmul(joints, tau) = Value(Interp(joints[i], joints[i + 1], tau))
    /\ \A e1 \in Easings, e2 \in Easings :
         joints = <<Joint(0, 0, e1), Joint(RelTolInv, 1, e2)>>
           => matmul(joints, RelTolInv \div 2)
                = Value(IF e1 = "LINEAR" THEN [num |-> 1, den |-> 2] ELSE IntRat(0))
    /\ (last.op = "cut" /\ last.e = "None")
         => \E i \in Hits(joints, last.a) :
                joints[i].easing = "LVALUE" /\ joints[i].value = last.v

C4_Witness ==
    /\ last.op = "eval"
    /\ last.a = RelTolInv \div 2
    /\ \E e2 \in Easings : joints = <<Joint(0, 0, "LINEAR"), Joint(RelTolInv, 1, e2)>>
    /\ ~last.raised
    /\ last.res = [num |-> 1, den |-> 2]

(* C5: evaluating the track never fails, in any state from the freshly
   constructed track onward. *)
C5_EvalTotal == \A tau \in QueryTimes : ~matmul(joints, tau).raised

(* C6: cut merges by tolerance. When some joint is equal() to t the number of
   joints is unchanged and one such joint gets the value and the easing
   (LVALUE when omitted), keeping its timestamp; otherwise exactly one joint
   is inserted at its sorted position. *)
C6_CutMerges ==
    [][last'.op = "cut" =>
        LET t == last'.a
            v == last'.v
            easing == IF last'.e = "None" THEN "LVALUE" ELSE last'.e
        IN  IF Hits(joints, t) # {}
            THEN \E i \in Hits(joints, t) :
                    joints' = [joints EXCEPT ![i] = Joint(joints[i].timestamp, v, easing)]
            ELSE \E k \in 0..Len(joints) :
                    /\ joints' = PyInsert(joints, k, Joint(t, v, easing))
                    /\ \A i \in 1..k : joints[i].timestamp < t
                    /\ \A i \in (k + 1)..Len(joints) : t < joints[i].timestamp
    ]_vars

(* The same statement for calls made on a track that satisfies the ordering
   of the data model. *)
C6_CutMergesOnTrack ==
    [][(last'.op = "cut" /\ IsTrack(joints)) =>
        LET t == last'.a
            v == last'.v
            easing == IF last'.e = "None" THEN "LVALUE" ELSE last'.e
        IN  /\ IsTrack(joints')
            /\ IF Hits(joints, t) # {}
               THEN \E i \in Hits(joints, t) :
                       joints' = [joints EXCEPT ![i] = Joint(joints[i].timestamp, v, easing)]
               ELSE \E k \in 0..Len(joints) :
                       /\ joints' = PyInsert(joints, k, Joint(t, v, easing))
                       /\ \A i \in 1..k : joints[i].timestamp < t
                       /\ \A i \in (k + 1)..Len(joints) : t < joints[i].timestamp
    ]_vars

(* C7: embed start value. On a non-empty track with no joint equal() to ts,
   the start joint embed inserts carries easing e and the value the track had
   at ts before the call, so the value at ts is unchanged. *)
C7_EmbedStartValue ==
    [][(/\ last'.op = "embed"
        /\ IsTrack(joints) /\ Len(joints) > 0
        /\ last'.a < last'.b /\ ~Overlaps(joints, last'.a, last'.b)
        /\ Hits(joints, last'.a) = {})
       =>
        /\ \E k \in 1..Len(joints') :
              /\ joints'[k].timestamp = last'.a
              /\ joints'[k].easing = last'.e
              /\ Value(IntRat(joints'[k].value)) = matmul(joints, last'.a)
        /\ matmul(joints', last'.a) = matmul(joints, last'.a)
    ]_vars

(* The index in js of the joint that follows ts: the one after the joint
   equal() to ts when there is one, else the first joint later than ts;
   0 when no joint follows. *)
Following(js, ts) ==
    LET later == IF Hits(js, ts) # {}
                 THEN {i \in 1..Len(js) : \A h \in Hits(js, ts) : i > h}
                 ELSE {i \in 1..Len(js) : js[i].timestamp > ts}
    IN IF later = {} THEN 0 ELSE CHOOSE i \in later : \A j \in later : i <= j

(* C8: embed end coincidence. When te is equal() to the timestamp of the
   joint that follows ts, that joint's value becomes ve, no end joint is
   added, and the track evaluates to ve at te afterwards. *)
C8_EmbedEndCoincidence ==
    [][(/\ last'.op = "embed"
        /\ IsTrack(joints)
        /\ last'.a < last'.b
        /\ Following(joints, last'.a) # 0
        /\ equal(joints[Following(joints, last'.a)].timestamp, last'.b))
       =>
        LET f == Following(joints, last'.a)
            added == IF Hits(joints, last'.a) = {} THEN 1 ELSE 0
        IN  /\ Len(joints') = Len(joints) + added
            /\ joints'[f + added].timestamp = joints[f].timestamp
            /\ joints'[f + added].value = last'.v
            /\ matmul(joints', last'.b) = Value(IntRat(last'.v))
    ]_vars

(* C9: embed on an existing start joint. When a joint equal() to ts exists
   (slightly below, at, or slightly above ts), embed changes only that joint's
   easing to e, keeps its timestamp and value, and creates no second joint at
   ts. *)
C9_EmbedExistingStart ==
    [][(/\ last'.op = "embed"
        /\ IsTrack(joints)
        /\ last'.a < last'.b /\ ~equal(last'.a, last'.b)
        /\ Hits(joints, last'.a) # {})
       =>
        /\ \A h \in Hits(joints, last'.a) :
              joints'[h] = [joints[h] EXCEPT !.easing = last'.e]
        /\ Cardinality(Hits(joints', last'.a)) = 1
    ]_vars

(* C10: an embed whose segment has an existing joint strictly inside it, or
   whose end is not later than its start, is refused with an error and leaves
   the joints unchanged. *)
C10_OverlapRejected ==
    [][(/\ last'.op = "embed"
        /\ (last'.b <= last'.a \/ Overlaps(joints, last'.a, last'.b)))
       => (last'.raised /\ joints' = joints)
    ]_vars

----------------------------------------------------------------------------
(* src/algo/algo_base.py: the plan cache format.

   Bytes are integers 0..255 and a byte string is a sequence of them.  A u32
   (screen width and height, pointer id) is kept as its two 16-bit halves
   <<hi, lo>>, an i32 timestamp as an integer, and a float as the fields of
   its IEEE-754 double: [sign, exp, m1, m2, m3] with the 52-bit mantissa split
   into 20 + 16 + 16 bits. *)

MaxFrames == 2

U32(hi, lo) == <<hi, lo>>
F64(sign, exp, m1, m2, m3) == [sign |-> sign, exp |-> exp, m1 |-> m1, m2 |-> m2, m3 |-> m3]

(* struct.pack('!I', u) / struct.unpack('!I', b) *)
pack_I_little(u) == <<u[2] % 256, u[2] \div 256, u[1] % 256, u[1] \div 256>>
pack_I(u) == <<u[1] \div 256, u[1] % 256, u[2] \div 256, u[2] % 256>>
unpack_I(b) == U32(b[1] * 256 + b[2], b[3] * 256 + b[4])

(* struct.pack('!i', ts) / struct.unpack('!i', b): two's complement, big-endian *)
pack_i(ts) ==
    LET u == IF ts < 0 THEN (ts + 2147483647) + 1 ELSE ts
    IN <<(u \div 16777216) + (IF ts < 0 THEN 128 ELSE 0),
         (u \div 65536) % 256, (u \div 256) % 256, u % 256>>
unpack_i(b) ==
    LET u == (b[1] % 128) * 16777216 + b[2] * 65536 + b[3] * 256 + b[4]
    IN IF b[1] >= 128 THEN (u - 2147483647) - 1 ELSE u

(* struct.pack('!B', n) and struct.unpack('!b', b): load_data reads the event
   count with the signed format 'b'. *)
pack_B(n) == <<n>>
unpack_b(b) == IF b[1] >= 128 THEN b[1] - 256 ELSE b[1]

(* struct.pack('!d', f) / struct.unpack('!d', b) *)
pack_d(f) ==
    <<f.sign * 128 + f.exp \div 16,
      (f.exp % 16) * 16 + f.m1 \div 65536,
      (f.m1 \div 256) % 256, f.m1 % 256,
      f.m2 \div 256, f.m2 % 256,
      f.m3 \div 256, f.m3 % 256>>
unpack_d(b) ==
    F64(b[1] \div 128,
        (b[1] % 128) * 16 + b[2] \div 16,
        (b[2] % 16) * 65536 + b[3] * 256 + b[4],
        b[5] * 256 + b[6],
        b[7] * 256 + b[8])

VirtualTouchEvent(pos, action, pointer_id) ==
    [pos |-> pos, action |-> action, pointer_id |-> pointer_id]
Complex(x, y) == [re |-> x, im |-> y]

(* VirtualTouchEvent.to_serializable: struct.pack('!BIdd', ...) *)
to_serializable(ev) ==
    <<ev.action>> \o pack_I(ev.pointer_id) \o pack_d(ev.pos.re) \o pack_d(ev.pos.im)

(* VirtualTouchEvent.from_serializable: struct.unpack('!BIdd', data) raises
   struct.error unless data has 21 bytes, TouchAction(action) raises
   ValueError unless action is 0..7. *)
from_serializable(data) ==
    IF Len(data) # 21
    THEN [ok |-> FALSE, ev |-> VirtualTouchEvent(Complex(F64(0, 0, 0, 0, 0), F64(0, 0, 0, 0, 0)), 0, U32(0, 0))]
    ELSE IF data[1] > 7
    THEN [ok |-> FALSE, ev |-> VirtualTouchEvent(Complex(F64(0, 0, 0, 0, 0), F64(0, 0, 0, 0, 0)), 0, U32(0, 0))]
    ELSE [ok |-> TRUE,
          ev |-> VirtualTouchEvent(Complex(unpack_d(SubSeq(data, 6, 13)), unpack_d(SubSeq(data, 14, 21))),
                                   data[1], unpack_I(SubSeq(data, 2, 5)))]

(* The bytes of the events of one frame, in order. *)
EventsBytes(events) ==
    [i \in 1..(21 * Len(events)) |->
        to_serializable(events[((i - 1) \div 21) + 1])[((i - 1) % 21) + 1]]

RECURSIVE DumpFrames(_)
DumpFrames(ans) ==
    IF ans = <<>>
    THEN <<>>
    ELSE LET ts == Head(ans)[1]
             events == Head(ans)[2]
         IN pack_i(ts) \o pack_B(Len(events)) \o EventsBytes(events) \o DumpFrames(Tail(ans))

(* dump_data *)
dump_data(scr, ans) ==
    <<80, 83, 65, 80>> \o pack_I(scr.width) \o pack_I(scr.height) \o DumpFrames(ans)

(* BytesIO.read(n) at position pos: the next n bytes, fewer at the end. *)
Read(content, pos, n) ==
    SubSeq(content, pos + 1, IF pos + n <= Len(content) THEN pos + n ELSE Len(content))

LoadFailed == [ok |-> FALSE, width |-> U32(0, 0), height |-> U32(0, 0), ans |-> <<>>]
Loaded(w, h, ans) == [ok |-> TRUE, width |-> w, height |-> h, ans |-> ans]

(* The while loop of load_data from position pos: the frames read, or a failure. *)
RECURSIVE ReadFrames(_, _)
ReadFrames(content, pos) ==
    LET ts_bytes == Read(content, pos, 4)
    IN  IF ts_bytes = <<>>
        THEN [ok |-> TRUE, ans |-> <<>>]
        ELSE IF Len(ts_bytes) < 4 \/ Read(content, pos + 4, 1) = <<>>
        THEN [ok |-> FALSE, ans |-> <<>>]
        ELSE LET ts == unpack_i(ts_bytes)
                 length == unpack_b(Read(content, pos + 4, 1))
                 count == IF length < 0 THEN 0 ELSE length
                 parsed == [k \in 1..count |->
                               from_serializable(Read(content, pos + 5 + 21 * (k - 1), 21))]
             IN IF \E k \in 1..count : ~parsed[k].ok
                THEN [ok |-> FALSE, ans |-> <<>>]
                ELSE LET rest == ReadFrames(content,
                                            IF pos + 5 + 21 * count <= Len(content)
                                            THEN pos + 5 + 21 * count ELSE Len(content))
                     IN IF rest.ok
                        THEN [ok |-> TRUE,
                              ans |-> <<<<ts, [k \in 1..count |-> parsed[k].ev]>>>> \o rest.ans]
                        ELSE rest

(* load_data *)
load_data(content) ==
    IF Read(content, 0, 4) # <<80, 83, 65, 80>>
    THEN LoadFailed
    ELSE IF Len(Read(content, 4, 8)) # 8
    THEN LoadFailed
    ELSE LET width == unpack_I(SubSeq(content, 5, 8))
             height == unpack_I(SubSeq(content, 9, 12))
             frames == ReadFrames(content, 12)
         IN IF frames.ok THEN Loaded(width, height, frames.ans) ELSE LoadFailed

----------------------------------------------------------------------------
(* The cache as a state machine: a timeline is built, dumped and loaded *)

Screens == {[width |-> U32(0, 1920), height |-> U32(0, 1080)],
            [width |-> U32(65535, 65535), height |-> U32(32768, 0)]}
FrameTimes == {-2147483647 - 1, -1, 2147483647}
EventCounts == {0, 1, 127, 128, 255}
PointerIds == <<U32(0, 0), U32(0, 9), U32(32768, 1), U32(65535, 65535)>>
(* 0.0, 1.5, -2.5, 0.1 *)
Floats == <<F64(0, 0, 0, 0, 0), F64(0, 1023, 524288, 0, 0),
            F64(1, 1024, 262144, 0, 0), F64(0, 1019, 629145, 39321, 39322)>>

(* The k-th event of a generated frame: the actions 0..7, the pointer ids and
   the coordinates in rotation. *)
GenEvent(k) ==
    VirtualTouchEvent(Complex(Floats[(k % 4) + 1], Floats[((k \div 4) % 4) + 1]),
                      k % 8, PointerIds[((k \div 2) % 4) + 1])
GenEvents(n) == [k \in 1..n |-> GenEvent(k)]

NotLoaded == LoadFailed

CacheInit ==
    /\ joints = <<>>
    /\ last = NoCall
    /\ legit = TRUE
    /\ screen \in Screens
    /\ timeline = <<>>
    /\ blob = <<>>
    /\ loaded = NotLoaded
    /\ cpc = "build"
    /\ geo = NoGeo
    /\ chart = NoChart
    /\ planning = NoPlanning
    /\ window = NoWindow

AddFrame(ts, n) ==
    /\ cpc = "build"
    /\ Len(timeline) < MaxFrames
    /\ timeline' = Append(timeline, <<ts, GenEvents(n)>>)
    /\ UNCHANGED <<screen, blob, loaded, cpc, bambooVars, geomVars, pecVars, guiVars>>

DumpData ==
    /\ cpc = "build"
    /\ blob' = dump_data(screen, timeline)
    /\ cpc' = "dumped"
    /\ UNCHANGED <<screen, timeline, loaded, bambooVars, geomVars, pecVars, guiVars>>

LoadData ==
    /\ cpc \in {"dumped", "damaged"}
    /\ loaded' = load_data(blob)
    /\ cpc' = "loaded"
    /\ UNCHANGED <<screen, timeline, blob, bambooVars, geomVars, pecVars, guiVars>>

CacheNext ==
    \/ \E ts \in FrameTimes, n \in EventCounts : AddFrame(ts, n)
    \/ DumpData
    \/ LoadData

CacheSpec == CacheInit /\ [][CacheNext]_vars

(* C1: cache round trip. load_data(dump_data(screen, timeline)) gives back
   the width, the height and the timeline, frame by frame and event by
   event, for frames of 0 to 255 events. *)
C1_RoundTrip ==
    cpc = "loaded" => loaded = Loaded(screen.width, screen.height, timeline)

(* The round trip for timelines whose frames have at most 127 events. *)
C1_RoundTripUpTo127 ==
    (cpc = "loaded" /\ \A i \in 1..Len(timeline) : Len(timeline[i][2]) <= 127)
        => loaded = Loaded(screen.width, screen.height, timeline)

----------------------------------------------------------------------------
(* load_data on dumps, on their prefixes and on damaged content             *)
(*                                                                          *)
(* dump_data and load_data are pure functions.  The inputs are drawn by the *)
(* initial state: a screen and a timeline of up to MaxDumpFrames frames.    *)
(* The content handed to load_data is the dump, the dump cut after some     *)
(* byte, or the dump with one byte of the magic replaced.                   *)

MaxDumpFrames == 2

DumpFrameKinds == {<<-2147483647 - 1, 0>>, <<-1, 1>>, <<2147483647, 127>>, <<-1, 128>>}
DumpTimelines ==
    UNION {{[i \in 1..n |-> <<f[i][1], GenEvents(f[i][2])>>] : f \in [1..n -> DumpFrameKinds]}
           : n \in 0..MaxDumpFrames}

(* The offset at which dump_data writes frame f of ans (the first is 1):
   12 bytes of header, then 5 + 21 * n bytes for a frame of n events. *)
RECURSIVE FrameStart(_, _)
FrameStart(ans, f) ==
    IF f = 1 THEN 12 ELSE FrameStart(ans, f - 1) + 5 + 21 * Len(ans[f - 1][2])

(* The lengths at which the content is cut: in the magic, in the resolution
   header, at the start of a frame, in its 5-byte header and in its first
   and last events. *)
FrameCuts(s, n) ==
    {s, s + 1, s + 4}
        \cup (IF n > 0 THEN {s + 6, s + 10, s + 25, s + 5 + 21 * (n - 1) + 10} ELSE {})
Cuts(ans) ==
    {0, 3, 4, 8, 11}
        \cup UNION {FrameCuts(FrameStart(ans, f), Len(ans[f][2])) : f \in 1..Len(ans)}

LoadInit ==
    /\ joints = <<>>
    /\ last = NoCall
    /\ legit = TRUE
    /\ screen \in Screens
    /\ timeline \in DumpTimelines
    /\ blob = <<>>
    /\ loaded = NotLoaded
    /\ cpc = "build"
    /\ geo = NoGeo
    /\ chart = NoChart
    /\ planning = NoPlanning
    /\ window = NoWindow

(* The content ends after n bytes. *)
Truncate(n) ==
    /\ cpc = "dumped"
    /\ n < Len(blob)
    /\ blob' = Read(blob, 0, n)
    /\ cpc' = "damaged"
    /\ UNCHANGED <<screen, timeline, loaded, bambooVars, geomVars, pecVars, guiVars>>

(* Byte i of the magic is another byte. *)
BadMagic(i, b) ==
    /\ cpc = "dumped"
    /\ blob[i] # b
    /\ blob' = [blob EXCEPT ![i] = b]
    /\ cpc' = "damaged"
    /\ UNCHANGED <<screen, timeline, loaded, bambooVars, geomVars, pecVars, guiVars>>

LoadNext ==
    \/ DumpData
    \/ \E n \in Cuts(timeline) : Truncate(n)
    \/ \E i \in 1..4, b \in {0, 80} : BadMagic(i, b)
    \/ LoadData

LoadSpec == LoadInit /\ [][LoadNext]_vars

(* Where a content that starts with a full header ends, read by the layout
   dump_data writes (the event count is an unsigned byte): at a record
   boundary, inside a frame header, inside an event or between two events
   of a frame; with the number of complete frames before the end, and
   whether a count byte above 127 was met. *)
RECURSIVE Layout(_, _, _, _)
Layout(content, pos, frames, high) ==
    IF pos = Len(content)
    THEN [end |-> "boundary", frames |-> frames, high |-> high]
    ELSE IF Len(content) - pos < 5
    THEN [end |-> "frame header", frames |-> frames, high |-> high]
    ELSE IF pos + 5 + 21 * content[pos + 5] <= Len(content)
    THEN Layout(content, pos + 5 + 21 * content[pos + 5], frames + 1,
                high \/ content[pos + 5] > 127)
    ELSE [end |-> IF (Len(content) - pos - 5) % 21 = 0 THEN "between events" ELSE "event",
          frames |-> frames, high |-> high \/ content[pos + 5] > 127]

HasMagic(content) == Read(content, 0, 4) = <<80, 83, 65, 80>>
HasHeader(content) == HasMagic(content) /\ Len(content) >= 12
Corrupt(content) ==
    \/ ~HasMagic(content)
    \/ Len(content) < 12
    \/ Layout(content, 12, 0, FALSE).end \in {"frame header", "event"}

(* C15: corrupt cache input is rejected. load_data fails and returns no
   result whenever the first four bytes are not 'PSAP' or the input ends
   inside the resolution header, inside a frame header or in the middle of
   an event. *)
C15_CorruptRejected ==
    (cpc = "loaded" /\ Corrupt(blob)) => ~loaded.ok

(* The same for content in which no event count is above 127. *)
C15_CorruptRejectedUpTo127 ==
    (cpc = "loaded" /\ Corrupt(blob)
        /\ (HasHeader(blob) => ~Layout(blob, 12, 0, FALSE).high))
        => ~loaded.ok

(* A bad magic and an end inside the resolution header are always rejected. *)
C15_HeaderRejected ==
    (cpc = "loaded" /\ ~HasHeader(blob)) => ~loaded.ok

(* C16: end of input at a record boundary is normal termination. load_data
   of the header followed by the first k complete frames of a dump returns
   exactly those k frames in their order, for every k from 0. *)
C16_PrefixLoads ==
    (cpc = "loaded" /\ HasHeader(blob) /\ Layout(blob, 12, 0, FALSE).end = "boundary")
        => loaded = Loaded(screen.width, screen.height,
                           SubSeq(timeline, 1, Layout(blob, 12, 0, FALSE).frames))

(* The same for prefixes whose frames have at most 127 events. *)
C16_PrefixLoadsUpTo127 ==
    (cpc = "loaded" /\ HasHeader(blob) /\ Layout(blob, 12, 0, FALSE).end = "boundary"
        /\ ~Layout(blob, 12, 0, FALSE).high)
        => loaded = Loaded(screen.width, screen.height,
                           SubSeq(timeline, 1, Layout(blob, 12, 0, FALSE).frames))

(* The event written at offset e of the content. *)
EventAt(content, e, ev) ==
    /\ content[e + 1] = ev.action
    /\ ev.action \in 0..7
    /\ content[e + 2] * 256 + content[e + 3] = ev.pointer_id[1]
    /\ content[e + 4] * 256 + content[e + 5] = ev.pointer_id[2]
    /\ unpack_d(SubSeq(content, e + 6, e + 13)) = ev.pos.re
    /\ unpack_d(SubSeq(content, e + 14, e + 21)) = ev.pos.im

(* The frame written at offset s of the content. *)
FrameAt(content, s, frame) ==
    /\ unpack_i(SubSeq(content, s + 1, s + 4)) = frame[1]
    /\ content[s + 5] = Len(frame[2])
    /\ \A j \in 1..Len(frame[2]) : EventAt(content, s + 5 + 21 * (j - 1), frame[2][j])

(* C17: cache layout. The output of dump_data is 'PSAP', the width and the
   height as two big-endian u32, then for each frame in timeline order an
   i32 timestamp, a u8 event count and that many 21-byte events (u8 action
   0..7, u32 pointer id, f64 x, f64 y); its length is 12 plus 5 + 21 * n
   for every frame of n events; it is a function of the screen and the
   timeline. *)
C17_DumpLayout ==
    cpc = "dumped" =>
        /\ blob = dump_data(screen, timeline)
        /\ Len(blob) = FrameStart(timeline, Len(timeline) + 1)
        /\ \A i \in 1..Len(blob) : blob[i] \in 0..255
        /\ SubSeq(blob, 1, 4) = <<80, 83, 65, 80>>
        /\ blob[5] * 256 + blob[6] = screen.width[1]
        /\ blob[7] * 256 + blob[8] = screen.width[2]
        /\ blob[9] * 256 + blob[10] = screen.height[1]
        /\ blob[11] * 256 + blob[12] = screen.height[2]
        /\ \A f \in 1..Len(timeline) : FrameAt(blob, FrameStart(timeline, f), timeline[f])

(* A dump of two frames, the second of 128 events: 12 + 26 + 2693 bytes. *)
C17_Witness ==
    /\ cpc = "dumped"
    /\ Len(timeline) = 2
    /\ Len(timeline[1][2]) = 1
    /\ Len(timeline[2][2]) = 128
    /\ Len(blob) = 2731
    /\ blob[17] = 1
    /\ blob[43] = 128

----------------------------------------------------------------------------
(* Python floats (IEEE 754 binary64, round to nearest, ties to even)        *)
(*                                                                          *)
(* A float is the record F64(sign, exp, m1, m2, m3) of its fields: the      *)
(* biased exponent and the 52 fraction bits in pieces of 20, 16 and 16.     *)
(* Its arithmetic is carried out on natural numbers of any size, written    *)
(* as little-endian sequences of digits in base Limb.  Zeros keep their     *)
(* sign.  Subnormals, infinities and NaN are not represented.               *)

Limb == 2 ^ 13
MantBits == 52 + 1
ExpBias == 2 ^ 10 - 1

Min(a, b) == IF a <= b THEN a ELSE b

RECURSIVE BitLen(_)
BitLen(n) == IF n = 0 THEN 0 ELSE 1 + BitLen(n \div 2)

RECURSIVE BTrim(_)
BTrim(a) == IF Len(a) > 0 /\ a[Len(a)] = 0 THEN BTrim(SubSeq(a, 1, Len(a) - 1)) ELSE a
BDigit(a, i) == IF i <= Len(a) THEN a[i] ELSE 0
BZero(a) == BTrim(a) = <<>>

RECURSIVE BAddFrom(_, _, _, _)
BAddFrom(a, b, i, c) ==
    IF i > Max(Len(a), Len(b))
    THEN IF c = 0 THEN <<>> ELSE <<c>>
    ELSE <<(BDigit(a, i) + BDigit(b, i) + c) % Limb>>
         \o BAddFrom(a, b, i + 1, (BDigit(a, i) + BDigit(b, i) + c) \div Limb)
BAdd(a, b) == BAddFrom(a, b, 1, 0)

(* a - b for a >= b *)
RECURSIVE BSubFrom(_, _, _, _)
BSubFrom(a, b, i, c) ==
    IF i > Len(a)
    THEN <<>>
    ELSE <<(BDigit(a, i) - BDigit(b, i) - c) % Limb>>
         \o BSubFrom(a, b, i + 1, IF BDigit(a, i) - BDigit(b, i) - c < 0 THEN 1 ELSE 0)
BSub(a, b) == BTrim(BSubFrom(a, b, 1, 0))

(* -1, 0 or 1 as a < b, a = b or a > b *)
RECURSIVE BCmpFrom(_, _, _)
BCmpFrom(a, b, i) ==
    IF i = 0 THEN 0
    ELSE IF BDigit(a, i) < BDigit(b, i) THEN -1
    ELSE IF BDigit(a, i) > BDigit(b, i) THEN 1
    ELSE BCmpFrom(a, b, i - 1)
BCmp(a, b) == BCmpFrom(a, b, Max(Len(a), Len(b)))

(* a * d for a digit d (0 <= d <= Limb) *)
RECURSIVE BMulDigitFrom(_, _, _, _)
BMulDigitFrom(a, d, i, c) ==
    IF i > Len(a)
    THEN IF c = 0 THEN <<>> ELSE <<c>>
    ELSE <<(a[i] * d + c) % Limb>> \o BMulDigitFrom(a, d, i + 1, (a[i] * d + c) \div Limb)
BMulDigit(a, d) == BMulDigitFrom(a, d, 1, 0)

RECURSIVE BMulFrom(_, _, _)
BMulFrom(a, b, j) ==
    IF j > Len(b) THEN <<>>
    ELSE BAdd(BMulDigit(a, b[j]), <<0>> \o BMulFrom(a, b, j + 1))
BMul(a, b) == BTrim(BMulFrom(a, b, 1))

(* floor(a / d) for 1 <= d <= Limb, digits taken from the top; r is the running remainder *)
RECURSIVE BDivDigitFrom(_, _, _, _)
BDivDigitFrom(a, d, i, r) ==
    IF i = 0 THEN <<>>
    ELSE BDivDigitFrom(a, d, i - 1, (r * Limb + a[i]) % d) \o <<(r * Limb + a[i]) \div d>>
BDivDigit(a, d) == BTrim(BDivDigitFrom(a, d, Len(a), 0))

(* a * 2^k and floor(a / 2^k) *)
BShl(a, k) ==
    IF BZero(a) THEN <<>>
    ELSE [i \in 1..(k \div 13) |-> 0] \o BMulDigit(BTrim(a), 2 ^ (k % 13))
BShr(a, k) ==
    IF k \div 13 >= Len(a) THEN <<>>
    ELSE BDivDigit(SubSeq(a, (k \div 13) + 1, Len(a)), 2 ^ (k % 13))

TopBits(t) == IF t = <<>> THEN 0 ELSE 13 * (Len(t) - 1) + BitLen(t[Len(t)])
BBitLen(a) == TopBits(BTrim(a))
BBit(a, i) == (BDigit(a, (i \div 13) + 1) \div (2 ^ (i % 13))) % 2
BOdd(a) == BDigit(a, 1) % 2 = 1

(* Long division (Knuth, TAOCP 4.3.1 D), one digit of a at a time from the
   top: the quotient and the remainder of floor(a / Limb^(j-1)) by b, from
   those of floor(a / Limb^j).  The top digit of b is at least Limb / 2, so
   the next digit of the quotient is the estimate made from the top digits
   or one or two below it. *)
QuoFrom(cur, b, qhat) ==
    IF BCmp(BMulDigit(b, qhat), cur) <= 0 THEN qhat
    ELSE IF BCmp(BMulDigit(b, qhat - 1), cur) <= 0 THEN qhat - 1
    ELSE qhat - 2
QuoDigit(cur, b) ==
    QuoFrom(cur, b, Min((BDigit(cur, Len(b) + 1) * Limb + BDigit(cur, Len(b))) \div b[Len(b)],
                        Limb - 1))
DivStep(prev, cur, b, d) == [q |-> <<d>> \o prev.q, r |-> BSub(cur, BMulDigit(b, d))]
DivDigit(prev, cur, b) == DivStep(prev, cur, b, QuoDigit(cur, b))
DivNext(prev, aj, b) ==
    IF prev.r = <<>> /\ aj = 0
    THEN [q |-> <<0>> \o prev.q, r |-> <<>>]
    ELSE DivDigit(prev, BTrim(<<aj>> \o prev.r), b)
RECURSIVE BDivModFrom(_, _, _)
BDivModFrom(a, b, j) ==
    IF j > Len(a) THEN [q |-> <<>>, r |-> <<>>]
    ELSE DivNext(BDivModFrom(a, b, j + 1), a[j], b)
(* floor(a / b) and whether the division left a remainder, for b # 0 *)
Normalised(a, b, sh) == BDivModFrom(BShl(a, sh), BShl(b, sh), 1)
Quotient(qr) == [q |-> BTrim(qr.q), exact |-> qr.r = <<>>]
DivTrimmed(a, t) == Quotient(Normalised(a, t, 13 - BitLen(t[Len(t)])))
BDivMod(a, b) == DivTrimmed(a, BTrim(b))

(* An unpacked float: the number (-1)^s * m * 2^e, m a natural of any size *)
Unpacked(s, e, m) == [s |-> s, e |-> e, m |-> m]

FIsZero(x) == x.exp = 0 /\ x.m1 = 0 /\ x.m2 = 0 /\ x.m3 = 0
FNeg(x) == F64(1 - x.sign, x.exp, x.m1, x.m2, x.m3)
FZero(s) == F64(s, 0, 0, 0, 0)

FUnpack(x) ==
    IF FIsZero(x) THEN Unpacked(x.sign, 0, <<>>)
    ELSE Unpacked(x.sign, x.exp - ExpBias - 52,
                  <<x.m3 % Limb,
                    (x.m3 \div Limb) + (x.m2 % 1024) * 8,
                    (x.m2 \div 1024) + (x.m1 % 128) * 64,
                    x.m1 \div 128,
                    1>>)

(* The float of a natural m of exactly MantBits bits times 2^e *)
FPack(s, e, m) ==
    F64(s, e + 52 + ExpBias,
        BDigit(m, 4) * 128 + (BDigit(m, 3) \div 64),
        (BDigit(m, 3) % 64) * 1024 + (BDigit(m, 2) \div 8),
        (BDigit(m, 2) % 8) * Limb + BDigit(m, 1))

(* Rounding of (-1)^s * m * 2^e to the nearest float, ties to even: m has
   len bits, q is m without the d = len - MantBits bits that do not fit, and
   c compares what was dropped with half a unit of q. *)
RoundCarry(s, e, q) ==
    IF BBitLen(q) > MantBits THEN FPack(s, e + 1, BShr(q, 1)) ELSE FPack(s, e, q)
RoundTie(s, e, q, c) ==
    RoundCarry(s, e, IF c > 0 \/ (c = 0 /\ BOdd(q)) THEN BAdd(q, <<1>>) ELSE q)
RoundDrop(s, e, m, d, q) ==
    RoundTie(s, e + d, q, BCmp(BAdd(m, m), BShl(BAdd(BAdd(q, q), <<1>>), d)))
RoundLen(s, e, m, len) ==
    IF len = 0 THEN FZero(s)
    ELSE IF len <= MantBits
    THEN FPack(s, e - (MantBits - len), BShl(m, MantBits - len))
    ELSE RoundDrop(s, e, m, len - MantBits, BShr(m, len - MantBits))
FRound(s, e, m) == RoundLen(s, e, m, BBitLen(m))

(* float(n) for an int n *)
FromInt(n) ==
    FRound(IF n < 0 THEN 1 ELSE 0, 0,
           <<Abs(n) % Limb, (Abs(n) \div Limb) % Limb, Abs(n) \div (Limb * Limb)>>)

(* x * y *)
MulUnpacked(a, b) == FRound((a.s + b.s) % 2, a.e + b.e, BMul(a.m, b.m))
FMul(x, y) ==
    IF FIsZero(x) \/ FIsZero(y) THEN FZero((x.sign + y.sign) % 2)
    ELSE MulUnpacked(FUnpack(x), FUnpack(y))

(* x + y: am and bm are the two magnitudes in units of 2^e, c compares them *)
AddAligned(sa, sb, e, am, bm, c) ==
    FRound(IF sa = sb \/ c > 0 THEN sa ELSE IF c < 0 THEN sb ELSE 0, e,
           IF sa = sb THEN BAdd(am, bm)
           ELSE IF c > 0 THEN BSub(am, bm)
           ELSE IF c < 0 THEN BSub(bm, am)
           ELSE <<>>)
AddShifted(sa, sb, e, am, bm) == AddAligned(sa, sb, e, am, bm, BCmp(am, bm))
AddUnpacked(a, b) ==
    AddShifted(a.s, b.s, Min(a.e, b.e),
               BShl(a.m, a.e - Min(a.e, b.e)), BShl(b.m, b.e - Min(a.e, b.e)))
FAdd(x, y) ==
    IF FIsZero(x) /\ FIsZero(y) THEN FZero(IF x.sign = 1 /\ y.sign = 1 THEN 1 ELSE 0)
    ELSE IF FIsZero(x) THEN y
    ELSE IF FIsZero(y) THEN x
    ELSE AddUnpacked(FUnpack(x), FUnpack(y))

FSub(x, y) == FAdd(x, FNeg(y))

(* x / y for y # 0: the quotient to more than MantBits + 2 bits, with one
   more bit that says whether the division left a remainder *)
DivSticky(s, e, qr) ==
    FRound(s, e, BAdd(BAdd(qr.q, qr.q), IF qr.exact THEN <<>> ELSE <<1>>))
DivUnpacked(a, b) ==
    DivSticky((a.s + b.s) % 2, a.e - b.e - (MantBits + 3) - 1,
              BDivMod(BShl(a.m, MantBits + 3), b.m))
FDiv(x, y) ==
    IF FIsZero(x) THEN FZero((x.sign + y.sign) % 2)
    ELSE DivUnpacked(FUnpack(x), FUnpack(y))

(* -1, 0 or 1 as x < y, x == y or x > y *)
CmpMagnitude(x, y) ==
    IF x.exp # y.exp THEN (IF x.exp < y.exp THEN -1 ELSE 1)
    ELSE IF x.m1 # y.m1 THEN (IF x.m1 < y.m1 THEN -1 ELSE 1)
    ELSE IF x.m2 # y.m2 THEN (IF x.m2 < y.m2 THEN -1 ELSE 1)
    ELSE IF x.m3 # y.m3 THEN (IF x.m3 < y.m3 THEN -1 ELSE 1)
    ELSE 0
FCmp(x, y) ==
    IF FIsZero(x) /\ FIsZero(y) THEN 0
    ELSE IF FIsZero(x) THEN (IF y.sign = 1 THEN 1 ELSE -1)
    ELSE IF FIsZero(y) THEN (IF x.sign = 1 THEN -1 ELSE 1)
    ELSE IF x.sign # y.sign THEN (IF x.sign = 1 THEN -1 ELSE 1)
    ELSE IF x.sign = 1 THEN -CmpMagnitude(x, y) ELSE CmpMagnitude(x, y)

----------------------------------------------------------------------------
(* src/algo/algo_base.py: det, intersect and ScreenUtil                     *)
(*                                                                          *)
(* The geometry is written once over numbers of two kinds, chosen by the    *)
(* first argument ar of every operator: "exact" numbers are rationals       *)
(* [num, den] in lowest terms with den > 0, "f64" numbers are Python        *)
(* floats with their rounding.                                              *)

QNeg(x) == [num |-> -x.num, den |-> x.den]
QAdd(x, y) == Rat(x.num * y.den + y.num * x.den, x.den * y.den)
QSub(x, y) == QAdd(x, QNeg(y))
QMul(x, y) == Rat(x.num * y.num, x.den * y.den)
(* x / y for y # 0 *)
QDiv(x, y) == IF y.num < 0 THEN Rat(-(x.num * y.den), -(x.den * y.num))
              ELSE Rat(x.num * y.den, x.den * y.num)
QLe(x, y) == x.num * y.den <= y.num * x.den

Num(ar, n) == IF ar = "exact" THEN IntRat(n) ELSE FromInt(n)
Neg(ar, x) == IF ar = "exact" THEN QNeg(x) ELSE FNeg(x)
Add(ar, x, y) == IF ar = "exact" THEN QAdd(x, y) ELSE FAdd(x, y)
Sub(ar, x, y) == IF ar = "exact" THEN QSub(x, y) ELSE FSub(x, y)
Mul(ar, x, y) == IF ar = "exact" THEN QMul(x, y) ELSE FMul(x, y)
Div(ar, x, y) == IF ar = "exact" THEN QDiv(x, y) ELSE FDiv(x, y)
Le(ar, x, y) == IF ar = "exact" THEN QLe(x, y) ELSE FCmp(x, y) <= 0
IsZero(ar, x) == IF ar = "exact" THEN x.num = 0 ELSE FIsZero(x)
Fabs(ar, x) == IF Le(ar, Num(ar, 0), x) THEN x ELSE Neg(ar, x)

(* Python's complex: a + b, a - b, a * b, a / b, a.conjugate(), 1j, complex(n, m) of ints *)
CAdd(ar, a, b) == Complex(Add(ar, a.re, b.re), Add(ar, a.im, b.im))
CSub(ar, a, b) == Complex(Sub(ar, a.re, b.re), Sub(ar, a.im, b.im))
CMul(ar, a, b) ==
    Complex(Sub(ar, Mul(ar, a.re, b.re), Mul(ar, a.im, b.im)),
            Add(ar, Mul(ar, a.re, b.im), Mul(ar, a.im, b.re)))
(* a / b for b # 0, as CPython divides: by the larger of b.real and b.imag
   first; ratio is the quotient of the smaller by the larger, denom the
   divisor that results *)
CDivBy(ar, x, y, denom) == Complex(Div(ar, x, denom), Div(ar, y, denom))
CDivReal(ar, a, b, ratio) ==
    CDivBy(ar, Add(ar, a.re, Mul(ar, a.im, ratio)), Sub(ar, a.im, Mul(ar, a.re, ratio)),
           Add(ar, b.re, Mul(ar, b.im, ratio)))
CDivImag(ar, a, b, ratio) ==
    CDivBy(ar, Add(ar, Mul(ar, a.re, ratio), a.im), Sub(ar, Mul(ar, a.im, ratio), a.re),
           Add(ar, Mul(ar, b.re, ratio), b.im))
CDiv(ar, a, b) ==
    IF Le(ar, Fabs(ar, b.im), Fabs(ar, b.re))
    THEN CDivReal(ar, a, b, Div(ar, b.im, b.re))
    ELSE CDivImag(ar, a, b, Div(ar, b.re, b.im))
conjugate(ar, a) == Complex(a.re, Neg(ar, a.im))
ImagUnit(ar) == Complex(Num(ar, 0), Num(ar, 1))
CInt(ar, n, m) == Complex(Num(ar, n), Num(ar, m))

(* det with the operands of the first product the other way round: Im(a * conj(b)) *)
det_imag(ar, a, b) == CMul(ar, a, conjugate(ar, b)).im

(* det: (a * b.conjugate() * 1j).real *)
det(ar, a, b) == CMul(ar, CMul(ar, a, conjugate(ar, b)), ImagUnit(ar)).re

NoPoint(ar) == [none |-> TRUE, pt |-> CInt(ar, 0, 0)]
Point(z) == [none |-> FALSE, pt |-> z]

(* intersect(line1, line2): a line is the pair of two of its points; the
   result is None or a point.  The operators below are the function from the
   assignment of dl1 and dl2, and from that of di and d, onwards;
   intersect_swapped returns the two coordinates exchanged. *)
intersect_swapped(ar, xd, yd, di, d) ==
    IF IsZero(ar, di) THEN NoPoint(ar)
    ELSE Point(Complex(Div(ar, det(ar, d, yd), di), Div(ar, det(ar, d, xd), di)))

intersect_di(ar, xd, yd, di, d) ==
    IF IsZero(ar, di) THEN NoPoint(ar)
    ELSE Point(Complex(Div(ar, det(ar, d, xd), di), Div(ar, det(ar, d, yd), di)))

intersect_dl(ar, line1, line2, dl1, dl2) ==
    intersect_di(ar, Complex(dl1.re, dl2.re), Complex(dl1.im, dl2.im),
                 det(ar, Complex(dl1.re, dl2.re), Complex(dl1.im, dl2.im)),
                 Complex(det(ar, line1[1], line1[2]), det(ar, line2[1], line2[2])))

intersect(ar, line1, line2) ==
    intersect_dl(ar, line1, line2,
                 CSub(ar, line1[1], line1[2]), CSub(ar, line2[1], line2[2]))

(* ScreenUtil.visible of a ScreenUtil(width, height) *)
visible(ar, width, height, p) ==
    /\ Le(ar, Num(ar, 0), p.re) /\ Le(ar, p.re, Num(ar, width))
    /\ Le(ar, Num(ar, 0), p.im) /\ Le(ar, p.im, Num(ar, height))

(* 0 <= x <= bound, for an int bound *)
Within(ar, x, bound) == Le(ar, Num(ar, 0), x) /\ Le(ar, x, Num(ar, bound))

(* One of the four tests of remap: s += j and cnt += 1 when j is in range *)
Accumulate(ar, s, inrange, j) == IF inrange THEN CAdd(ar, s, j.pt) ELSE s
Count(cnt, inrange) == IF inrange THEN cnt + 1 ELSE cnt

(* ScreenUtil.remap of a ScreenUtil(width, height).  The operators below are
   the function from the end of the four tests, from the assignment of
   j1..j4 and from that of q onwards. *)
remap_s(ar, width, height, s, cnt) ==
    IF IsZero(ar, s.re) /\ IsZero(ar, s.im)
    THEN CDiv(ar, CInt(ar, width, height), CInt(ar, 2, 0))
    ELSE CDiv(ar, s, CInt(ar, cnt, 0))

remap_in(ar, width, height, j1, j2, j3, j4, in1, in2, in3, in4) ==
    remap_s(ar, width, height,
            Accumulate(ar, Accumulate(ar, Accumulate(ar, Accumulate(ar, CInt(ar, 0, 0),
                in1, j1), in2, j2), in3, j3), in4, j4),
            Count(Count(Count(Count(0, in1), in2), in3), in4))

remap_j(ar, width, height, j1, j2, j3, j4) ==
    remap_in(ar, width, height, j1, j2, j3, j4,
             ~j1.none /\ Within(ar, j1.pt.re, width),
             ~j2.none /\ Within(ar, j2.pt.im, height),
             ~j3.none /\ Within(ar, j3.pt.im, height),
             ~j4.none /\ Within(ar, j4.pt.re, width))

remap_q(ar, width, height, p, q) ==
    remap_j(ar, width, height,
            intersect(ar, <<p, q>>, <<CInt(ar, 0, 0), CInt(ar, width, 0)>>),
            intersect(ar, <<p, q>>, <<CInt(ar, 0, 0), CMul(ar, CInt(ar, height, 0), ImagUnit(ar))>>),
            intersect(ar, <<p, q>>, <<CInt(ar, width, 0), CInt(ar, width, height)>>),
            intersect(ar, <<p, q>>, <<CMul(ar, CInt(ar, height, 0), ImagUnit(ar)),
                                      CInt(ar, width, height)>>))

remap(ar, width, height, p, rotation) ==
    IF visible(ar, width, height, p) THEN p
    ELSE remap_q(ar, width, height, p, CAdd(ar, p, CMul(ar, rotation, ImagUnit(ar))))

----------------------------------------------------------------------------
(* The geometry functions as a state machine: one call, drawn at the start, *)
(* and the step that makes it                                               *)

GeoCall(fn, ar, width, height, args) ==
    [fn |-> fn, done |-> FALSE, ar |-> ar, width |-> width, height |-> height,
     args |-> args, none |-> FALSE, res |-> Complex(IntRat(0), IntRat(0))]

(* Points with integer coordinates *)
Grid(xs, ys) == {CInt("exact", x, y) : x \in xs, y \in ys}
DetPoints == Grid(-2..2, -2..2)
LinePoints == Grid(-1..1, -1..1)
Directions == Grid(-1..1, -1..1)
ExactScreens == {<<4, 2>>, <<2, 3>>}

(* The float literal n/10, as Python reads it *)
Tenths(n) == FDiv(FromInt(n), FromInt(10))
FloatScreens == {<<1920, 1080>>, <<3, 7>>}
FloatCoords == {Tenths(0), Tenths(14), Tenths(-9), Tenths(10842), Tenths(7)}
FloatDirs == {Tenths(0), Tenths(21), Tenths(-7), Tenths(1)}

GeoCalls ==
    {GeoCall("det", "exact", 0, 0, <<a, b>>) : a \in DetPoints, b \in DetPoints}
    \cup {GeoCall("intersect", "exact", 0, 0, <<a, b, c, d>>) :
              a \in LinePoints, b \in LinePoints, c \in LinePoints, d \in LinePoints}
    \cup UNION {{GeoCall("remap", "exact", wh[1], wh[2], <<p, r>>) :
                     p \in Grid(-1..(wh[1] + 1), -1..(wh[2] + 1)), r \in Directions} :
                wh \in ExactScreens}
    \cup {GeoCall("remap", "f64", wh[1], wh[2], <<Complex(x, y), Complex(u, v)>>) :
              wh \in FloatScreens, x \in FloatCoords, y \in FloatCoords,
              u \in FloatDirs, v \in FloatDirs}

GeomInit ==
    /\ joints = <<>>
    /\ last = NoCall
    /\ legit = TRUE
    /\ screen = [width |-> <<0, 0>>, height |-> <<0, 0>>]
    /\ timeline = <<>>
    /\ blob = <<>>
    /\ loaded = [ok |-> FALSE, width |-> <<0, 0>>, height |-> <<0, 0>>, ans |-> <<>>]
    /\ cpc = "idle"
    /\ geo \in GeoCalls
    /\ chart = NoChart
    /\ planning = NoPlanning
    /\ window = NoWindow

Det ==
    /\ geo.fn = "det" /\ ~geo.done
    /\ geo' = [geo EXCEPT !.done = TRUE,
                          !.res = det(geo.ar, geo.args[1], geo.args[2])]
    /\ UNCHANGED <<bambooVars, cacheVars, pecVars, guiVars>>

Intersect ==
    /\ geo.fn = "intersect" /\ ~geo.done
    /\ LET j == intersect(geo.ar, <<geo.args[1], geo.args[2]>>, <<geo.args[3], geo.args[4]>>)
       IN geo' = [geo EXCEPT !.done = TRUE, !.none = j.none, !.res = j.pt]
    /\ UNCHANGED <<bambooVars, cacheVars, pecVars, guiVars>>

Remap ==
    /\ geo.fn = "remap" /\ ~geo.done
    /\ geo' = [geo EXCEPT !.done = TRUE,
                          !.res = remap(geo.ar, geo.width, geo.height, geo.args[1], geo.args[2])]
    /\ UNCHANGED <<bambooVars, cacheVars, pecVars, guiVars>>

GeomNext ==
    \/ Det
    \/ Intersect
    \/ Remap

GeomSpec == GeomInit /\ [][GeomNext]_vars

----------------------------------------------------------------------------
(* Claims about the geometry functions *)

(* The integer coordinates of a point of a Grid *)
X(z) == z.re.num
Y(z) == z.im.num

(* C13 as stated: det(a, b) equals Im(a * conj(b)), that is
   a.im * b.re - a.re * b.im, for all points a and b. *)
C13_DetAsStated ==
    (geo.fn = "det" /\ geo.done) =>
        geo.res = IntRat(Y(geo.args[1]) * X(geo.args[2]) - X(geo.args[1]) * Y(geo.args[2]))

(* C13, amended: det(a, b) equals -Im(a * conj(b)), that is
   a.re * b.im - a.im * b.re, for all points a and b. *)
C13_DetValue ==
    (geo.fn = "det" /\ geo.done) =>
        geo.res = IntRat(X(geo.args[1]) * Y(geo.args[2]) - Y(geo.args[1]) * X(geo.args[2]))

(* det(1, 1j) has been computed and is 1 *)
C13_Witness ==
    /\ geo.fn = "det" /\ geo.done
    /\ geo.args = <<CInt("exact", 1, 0), CInt("exact", 0, 1)>>
    /\ geo.res = IntRat(1)

(* z lies on the line through the grid points a and b *)
Collinear(z, a, b) ==
    QSub(QMul(IntRat(X(b) - X(a)), QSub(z.im, a.im)),
         QMul(IntRat(Y(b) - Y(a)), QSub(z.re, a.re))).num = 0
(* The direction vectors a - b and c - d are parallel (or one of them is zero) *)
Parallel(a, b, c, d) == (X(a) - X(b)) * (Y(c) - Y(d)) - (Y(a) - Y(b)) * (X(c) - X(d)) = 0

(* C14: intersect(l1, l2) returns None exactly when the direction vectors of
   the two lines are parallel, which includes a line whose two endpoints
   coincide; otherwise it returns a point collinear with both endpoints of
   l1 and with both endpoints of l2, and no other grid point is. *)
C14_Intersect ==
    (geo.fn = "intersect" /\ geo.done) =>
        LET a == geo.args[1]
            b == geo.args[2]
            c == geo.args[3]
            d == geo.args[4]
        IN /\ geo.none <=> Parallel(a, b, c, d)
           /\ ~geo.none =>
                /\ Collinear(geo.res, a, b)
                /\ Collinear(geo.res, c, d)
                /\ \A z \in DetPoints :
                       (Collinear(z, a, b) /\ Collinear(z, c, d)) => z = geo.res

(* The two diagonals of the unit square have been intersected, at (1/2, 1/2) *)
C14_Witness ==
    /\ geo.fn = "intersect" /\ geo.done /\ ~geo.none
    /\ geo.args = <<CInt("exact", 0, 0), CInt("exact", 1, 1), CInt("exact", 0, 1), CInt("exact", 1, 0)>>
    /\ geo.res = Complex(Rat(1, 2), Rat(1, 2))

(* What remap is to return for a point outside the screen: the mean of the
   intersections in range, the centre when there is none *)
MeanInRange(ar, width, height, p, rotation) ==
    LET q == CAdd(ar, p, CMul(ar, rotation, ImagUnit(ar)))
        corner == CInt(ar, width, height)
        top == CInt(ar, 0, height)
        js == <<intersect(ar, <<p, q>>, <<CInt(ar, 0, 0), CInt(ar, width, 0)>>),
                intersect(ar, <<p, q>>, <<CInt(ar, 0, 0), top>>),
                intersect(ar, <<p, q>>, <<CInt(ar, width, 0), corner>>),
                intersect(ar, <<p, q>>, <<top, corner>>)>>
        along == <<"re", "im", "im", "re">>
        inrange == {k \in 1..4 : /\ ~js[k].none
                                 /\ IF along[k] = "re" THEN Within(ar, js[k].pt.re, width)
                                                        ELSE Within(ar, js[k].pt.im, height)}
        Sum[S \in SUBSET (1..4)] ==
            IF S = {} THEN CInt(ar, 0, 0)
            ELSE LET k == CHOOSE m \in S : \A n \in S : m >= n
                 IN CAdd(ar, Sum[S \ {k}], js[k].pt)
    IN IF inrange = {} THEN CDiv(ar, corner, CInt(ar, 2, 0))
       ELSE CDiv(ar, Sum[inrange], CInt(ar, Cardinality(inrange), 0))

(* C11: remap(p, dir) returns p when p is inside the screen; otherwise the
   mean of the intersections of the line through p with the four edge lines
   that fall inside their edge's range, and the screen centre only when no
   intersection does, also when the intersections in range are at the
   origin corner. *)
C11_RemapResult ==
    (geo.fn = "remap" /\ geo.done /\ geo.ar = "exact") =>
        geo.res = IF visible(geo.ar, geo.width, geo.height, geo.args[1])
                  THEN geo.args[1]
                  ELSE MeanInRange(geo.ar, geo.width, geo.height, geo.args[1], geo.args[2])

(* C11 away from the origin corner: remap returns the mean of the
   intersections in range, or the centre when none is, whenever the
   intersections in range do not all lie at (0, 0). *)
C11_RemapResultOffOrigin ==
    (geo.fn = "remap" /\ geo.done /\ geo.ar = "exact"
        /\ ~visible(geo.ar, geo.width, geo.height, geo.args[1])
        /\ geo.res # MeanInRange(geo.ar, geo.width, geo.height, geo.args[1], geo.args[2])) =>
        /\ MeanInRange(geo.ar, geo.width, geo.height, geo.args[1], geo.args[2]) = CInt("exact", 0, 0)
        /\ geo.res = CDiv("exact", CInt("exact", geo.width, geo.height), CInt("exact", 2, 0))

(* C12: for every point p and every direction, remap(p, dir) returns a point
   for which visible() is true. *)
C12_ScreenContainment ==
    (geo.fn = "remap" /\ geo.done) =>
        visible(geo.ar, geo.width, geo.height, geo.res)

(* C12 without rounding: in exact arithmetic remap returns a visible point
   and remap of that point is the point itself. *)
C12_ContainmentExact ==
    (geo.fn = "remap" /\ geo.done /\ geo.ar = "exact") =>
        /\ visible(geo.ar, geo.width, geo.height, geo.res)
        /\ remap(geo.ar, geo.width, geo.height, geo.res, geo.args[2]) = geo.res

----------------------------------------------------------------------------
(* src/pec.py: PecChart reads the commands of a PEC text in their order     *)
(*                                                                          *)
(* Times are whole numbers of ticks, TicksPerSecond to the second, and the  *)
(* beats and tempos of the commands are chosen so that every time computed  *)
(* is a whole number of ticks.  Angles are counted in units of pi / 180     *)
(* radians.  A position is the pair of its coordinates.                     *)

MaxCommands == 4
TicksPerSecond == 2

_CHART_WIDTH == 2048
_CHART_HEIGHT == 1400

PEC_NOTE_TYPES == <<"UNKNOWN", "TAP", "HOLD", "FLICK", "DRAG">>

(* RPE_EASING_FUNCS[easing_type] *)
RPE_EASING_FUNCS(easing_type) == IF easing_type = 1 THEN "LINEAR" ELSE "LVALUE"

PecNote(type, time, position_x, above, end_time) ==
    [type |-> type, time |-> time, position_x |-> position_x, above |-> above,
     end_time |-> end_time]

(* basis.Note(type, time, duration, position_x) *)
Note(type, time, duration, position_x) ==
    [type |-> type, time |-> time, duration |-> duration, position_x |-> position_x]

(* PecNote.to_note: `end_time or time` is time when end_time is None or 0.
   An optional time is <<>> for None and <<t>> for the time t. *)
to_note(n) ==
    Note(n.type, n.time,
         (IF n.end_time = <<>> \/ n.end_time[1] = 0 THEN n.time ELSE n.end_time[1]) - n.time,
         n.position_x)

(* PecJudgeLine(chart=self): no notes, two empty tracks *)
PecJudgeLine == [pec_notes |-> <<>>, angle |-> <<>>, position |-> <<>>]

PecBpsInfo(time, beats, bps) == [time |-> time, beats |-> beats, bps |-> bps]

(* PecChart.__init__ up to the exec of the content *)
NewChart(ratio) ==
    [pc |-> "reading", width |-> ratio[1], height |-> ratio[2], commands |-> 0,
     bpss |-> <<>>, judge_lines |-> <<>>]

(* The constructor raised: no chart is delivered. *)
Raised(error) == [pc |-> "failed", error |-> error]

(* self.judge_lines[line_number] of the defaultdict, and its update *)
JudgeLineOf(c, line_number) ==
    IF line_number \in DOMAIN c.judge_lines THEN c.judge_lines[line_number] ELSE PecJudgeLine
WithLine(c, line_number, line) ==
    [c EXCEPT !.commands = @ + 1,
              !.judge_lines = [l \in (DOMAIN c.judge_lines) \cup {line_number} |->
                                  IF l = line_number THEN line ELSE c.judge_lines[l]]]

(* What stands for a time when _beats_to_seconds raises RuntimeError; no time
   of the model is that early. *)
NoSeconds == -1000000

(* PecChart._beats_to_seconds, from entry i of bpss downwards: the time in
   ticks, or NoSeconds for the RuntimeError. *)
RECURSIVE BeatsFrom(_, _, _)
BeatsFrom(bpss, i, beats) ==
    IF i = 0 THEN NoSeconds
    ELSE IF beats >= bpss[i].beats
    THEN bpss[i].time
             + ((beats - bpss[i].beats) * TicksPerSecond * bpss[i].bps.den) \div bpss[i].bps.num
    ELSE BeatsFrom(bpss, i - 1, beats)
_beats_to_seconds(bpss, beats) == BeatsFrom(bpss, Len(bpss), beats)

(* PecChart._bp measuring the time since the last event with the new tempo *)
_bp_newtempo(c, beats, bpm) ==
    IF c.bpss = <<>>
    THEN [c EXCEPT !.commands = @ + 1, !.bpss = <<PecBpsInfo(0, beats, Rat(bpm, 60))>>]
    ELSE [c EXCEPT !.commands = @ + 1,
                   !.bpss = Append(@, PecBpsInfo(
                       PyAt(c.bpss, -1).time
                           + ((beats - PyAt(c.bpss, -1).beats) * TicksPerSecond
                                  * Rat(bpm, 60).den) \div Rat(bpm, 60).num,
                       beats, Rat(bpm, 60)))]

(* PecChart._bp *)
_bp(c, beats, bpm) ==
    IF c.bpss = <<>>
    THEN [c EXCEPT !.commands = @ + 1, !.bpss = <<PecBpsInfo(0, beats, Rat(bpm, 60))>>]
    ELSE [c EXCEPT !.commands = @ + 1,
                   !.bpss = Append(@, PecBpsInfo(
                       PyAt(c.bpss, -1).time
                           + ((beats - PyAt(c.bpss, -1).beats) * TicksPerSecond
                                  * PyAt(c.bpss, -1).bps.den) \div PyAt(c.bpss, -1).bps.num,
                       beats, Rat(bpm, 60)))]

(* PecChart._note once start and end are known *)
_note_at(c, type, line_number, start, end, position_x, above, fake) ==
    IF start = NoSeconds \/ (end # <<>> /\ end[1] = NoSeconds)
    THEN Raised("RuntimeError")
    ELSE IF fake # 0
    THEN [c EXCEPT !.commands = @ + 1]
    ELSE WithLine(c, line_number,
                  [JudgeLineOf(c, line_number) EXCEPT !.pec_notes =
                      Append(@, PecNote(type, start,
                                        (position_x * c.width) \div _CHART_WIDTH,
                                        above # 0, end))])

(* PecChart._note: n2 takes the beats of the start and of the end, the other
   note commands one beat. *)
_note(c, note_type, line_number, start_beats, end_beats, position_x, above, fake) ==
    IF PEC_NOTE_TYPES[note_type + 1] = "HOLD"
    THEN _note_at(c, PEC_NOTE_TYPES[note_type + 1], line_number,
                  _beats_to_seconds(c.bpss, start_beats),
                  <<_beats_to_seconds(c.bpss, end_beats)>>, position_x, above, fake)
    ELSE _note_at(c, PEC_NOTE_TYPES[note_type + 1], line_number,
                  _beats_to_seconds(c.bpss, start_beats), <<>>, position_x, above, fake)

(* complex(x, self.height - y) of _cp and _cm *)
ChartPosition(c, x, y) ==
    <<(x * c.width) \div _CHART_WIDTH, c.height - (y * c.height) \div _CHART_HEIGHT>>

(* math.radians(degree), in units of pi / 180 *)
radians(degree) == degree

(* The line after a call on one of its tracks, or the IndexError of embed *)
TrackCall(c, line_number, field, outcome) ==
    IF outcome.raised
    THEN Raised("IndexError")
    ELSE WithLine(c, line_number,
                  IF field = "position"
                  THEN [JudgeLineOf(c, line_number) EXCEPT !.position = outcome.joints]
                  ELSE [JudgeLineOf(c, line_number) EXCEPT !.angle = outcome.joints])

(* PecChart._cp *)
_cp_at(c, line_number, seconds, x, y) ==
    IF seconds = NoSeconds THEN Raised("RuntimeError")
    ELSE TrackCall(c, line_number, "position",
                   cut(JudgeLineOf(c, line_number).position, seconds,
                       ChartPosition(c, x, y), "None"))
_cp(c, line_number, beats, x, y) ==
    _cp_at(c, line_number, _beats_to_seconds(c.bpss, beats), x, y)

(* PecChart._cd *)
_cd_at(c, line_number, seconds, degree) ==
    IF seconds = NoSeconds THEN Raised("RuntimeError")
    ELSE TrackCall(c, line_number, "angle",
                   cut(JudgeLineOf(c, line_number).angle, seconds, radians(degree), "None"))
_cd(c, line_number, beats, degree) ==
    _cd_at(c, line_number, _beats_to_seconds(c.bpss, beats), degree)

(* PecChart._cm *)
_cm_at(c, line_number, seconds_start, seconds_end, x, y, easing_type) ==
    IF seconds_start = NoSeconds \/ seconds_end = NoSeconds THEN Raised("RuntimeError")
    ELSE TrackCall(c, line_number, "position",
                   embed(JudgeLineOf(c, line_number).position, seconds_start, seconds_end,
                         ChartPosition(c, x, y), RPE_EASING_FUNCS(easing_type)))
_cm(c, line_number, start_beats, end_beats, x, y, easing_type) ==
    _cm_at(c, line_number, _beats_to_seconds(c.bpss, start_beats),
           _beats_to_seconds(c.bpss, end_beats), x, y, easing_type)

(* PecChart._cr *)
_cr_at(c, line_number, seconds_start, seconds_end, end, easing_type) ==
    IF seconds_start = NoSeconds \/ seconds_end = NoSeconds THEN Raised("RuntimeError")
    ELSE TrackCall(c, line_number, "angle",
                   embed(JudgeLineOf(c, line_number).angle, seconds_start, seconds_end,
                         radians(end), RPE_EASING_FUNCS(easing_type)))
_cr(c, line_number, start_beats, end_beats, end, easing_type) ==
    _cr_at(c, line_number, _beats_to_seconds(c.bpss, start_beats),
           _beats_to_seconds(c.bpss, end_beats), end, easing_type)

(* PecJudgeLine.convert_notes *)
convert_notes(line) ==
    [notes |-> [i \in 1..Len(line.pec_notes) |-> to_note(line.pec_notes[i])],
     angle |-> line.angle, position |-> line.position]

(* The end of PecChart.__init__: self.lines *)
Delivered(c) ==
    [pc |-> "delivered", width |-> c.width, height |-> c.height, bpss |-> c.bpss,
     lines |-> [l \in DOMAIN c.judge_lines |-> convert_notes(c.judge_lines[l])]]

(* One coordinate of a position track *)
Coordinate(js, k) == [i \in 1..Len(js) |-> [js[i] EXCEPT !.value = js[i].value[k]]]

(* PecJudgeLine.pos: the operands of pos + cmath.exp(angle * 1j) * offset, or
   the error of a track evaluation. *)
PosOf(angle, re, im, offset) ==
    [raised |-> angle.raised \/ re.raised \/ im.raised,
     angle |-> angle.val, pos |-> <<re.val, im.val>>, offset |-> offset]
pos(line, seconds, offset) ==
    PosOf(matmul(line.angle, seconds), matmul(Coordinate(line.position, 1), seconds),
          matmul(Coordinate(line.position, 2), seconds), offset)

----------------------------------------------------------------------------
(* The reading of a chart as a state machine: one action per command *)

Ratios == {<<16, 9>>}
LineNumbers == {0, 1}
Beats == 0..1
TempoBeats == 0..2
Tempos == {60, 120}
NoteXs == {512}
ChartXs == {1024}
ChartYs == {0}
Degrees == {90}
EasingTypes == {1}

PecInit ==
    /\ joints = <<>>
    /\ last = NoCall
    /\ legit = TRUE
    /\ screen = [width |-> U32(0, 0), height |-> U32(0, 0)]
    /\ timeline = <<>>
    /\ blob = <<>>
    /\ loaded = NotLoaded
    /\ cpc = "idle"
    /\ geo = NoGeo
    /\ chart \in {NewChart(ratio) : ratio \in Ratios}
    /\ planning = NoPlanning
    /\ window = NoWindow

Reading == chart.pc = "reading" /\ chart.commands < MaxCommands

Bp(beats, bpm) ==
    /\ Reading
    /\ chart' = _bp(chart, beats, bpm)
    /\ UNCHANGED <<bambooVars, cacheVars, geomVars, guiVars>>

NoteCmd(note_type, line_number, start_beats, end_beats, position_x, fake) ==
    /\ Reading
    /\ chart' = _note(chart, note_type, line_number, start_beats, end_beats, position_x, 1, fake)
    /\ UNCHANGED <<bambooVars, cacheVars, geomVars, guiVars>>

Cp(line_number, beats, x, y) ==
    /\ Reading
    /\ chart' = _cp(chart, line_number, beats, x, y)
    /\ UNCHANGED <<bambooVars, cacheVars, geomVars, guiVars>>

Cd(line_number, beats, degree) ==
    /\ Reading
    /\ chart' = _cd(chart, line_number, beats, degree)
    /\ UNCHANGED <<bambooVars, cacheVars, geomVars, guiVars>>

Cm(line_number, start_beats, end_beats, x, y, easing_type) ==
    /\ Reading
    /\ chart' = _cm(chart, line_number, start_beats, end_beats, x, y, easing_type)
    /\ UNCHANGED <<bambooVars, cacheVars, geomVars, guiVars>>

Cr(line_number, start_beats, end_beats, end, easing_type) ==
    /\ Reading
    /\ chart' = _cr(chart, line_number, start_beats, end_beats, end, easing_type)
    /\ UNCHANGED <<bambooVars, cacheVars, geomVars, guiVars>>

(* The content is exhausted: the notes are converted, the chart is delivered. *)
Deliver ==
    /\ chart.pc = "reading"
    /\ chart' = Delivered(chart)
    /\ UNCHANGED <<bambooVars, cacheVars, geomVars, guiVars>>

PecNext ==
    \/ \E beats \in TempoBeats, bpm \in Tempos : Bp(beats, bpm)
    \/ \E note_type \in 1..4, line_number \in LineNumbers, start_beats \in Beats,
          position_x \in NoteXs, fake \in {0, 1} :
          \E end_beats \in (IF note_type = 2 THEN Beats ELSE {start_beats}) :
              NoteCmd(note_type, line_number, start_beats, end_beats, position_x, fake)
    \/ \E line_number \in LineNumbers, beats \in Beats, x \in ChartXs, y \in ChartYs :
          Cp(line_number, beats, x, y)
    \/ \E line_number \in LineNumbers, beats \in Beats, degree \in Degrees :
          Cd(line_number, beats, degree)
    \/ \E line_number \in LineNumbers, start_beats \in Beats, end_beats \in Beats,
          x \in ChartXs, y \in ChartYs, easing_type \in EasingTypes :
          Cm(line_number, start_beats, end_beats, x, y, easing_type)
    \/ \E line_number \in LineNumbers, start_beats \in Beats, end_beats \in Beats,
          end \in Degrees, easing_type \in EasingTypes :
          Cr(line_number, start_beats, end_beats, end, easing_type)
    \/ Deliver

PecSpec == PecInit /\ [][PecNext]_vars

(* The notes of line l of the delivered chart *)
NotesOf(l) == chart.lines[l].notes

(* C18: in every chart delivered by PecChart, whatever the order of the note
   commands in the text, the notes of each judge line are sorted by
   non-decreasing time. *)
C18_NotesSorted ==
    chart.pc = "delivered" =>
        \A l \in DOMAIN chart.lines :
            \A i \in 1..(Len(NotesOf(l)) - 1) : NotesOf(l)[i].time <= NotesOf(l)[i + 1].time

(* C19: for every judge line of a delivered chart and every note on it,
   pos(note.time, (x_offset, 0)) evaluates without raising, whatever
   position and rotation events the text has for the line, none included. *)
C19_PosDefined ==
    chart.pc = "delivered" =>
        \A l \in DOMAIN chart.lines :
            \A i \in 1..Len(NotesOf(l)) :
                ~pos(chart.lines[l], NotesOf(l)[i].time, <<NotesOf(l)[i].position_x, 0>>).raised

(* The same for the lines that have a position event and a rotation event. *)
C19_PosDefinedOnTracks ==
    chart.pc = "delivered" =>
        \A l \in DOMAIN chart.lines :
            (chart.lines[l].angle # <<>> /\ chart.lines[l].position # <<>>) =>
                \A i \in 1..Len(NotesOf(l)) :
                    ~pos(chart.lines[l], NotesOf(l)[i].time, <<NotesOf(l)[i].position_x, 0>>).raised

(* The step of n1, n2, n3 or n4 appends a note of type TAP, HOLD, FLICK or
   DRAG to the line. *)
NoteCommandTypes ==
    \A note_type \in 1..4, line_number \in LineNumbers, start_beats \in Beats,
       end_beats \in Beats, position_x \in NoteXs :
        (NoteCmd(note_type, line_number, start_beats, end_beats, position_x, 0)
            /\ chart'.pc = "reading")
            => PyAt(chart'.judge_lines[line_number].pec_notes, -1).type
                   = <<"TAP", "HOLD", "FLICK", "DRAG">>[note_type]

(* The notes delivered for the PecNotes of the lines: TAP, DRAG and FLICK
   have duration 0, HOLD has duration end_time - start_time; a HOLD for
   which `positive` holds has a duration above 0. *)
Durations(note, pec_note, positive) ==
    /\ note.type \in {"TAP", "HOLD", "FLICK", "DRAG"}
    /\ note.type \in {"TAP", "DRAG", "FLICK"} => note.duration = 0
    /\ (note.type = "HOLD" /\ positive) =>
           /\ note.duration = pec_note.end_time[1] - pec_note.time
           /\ note.duration > 0

(* C20: every note produced by PecChart has type TAP, HOLD, FLICK or DRAG
   (commands n1, n2, n3, n4 respectively); every TAP, DRAG and FLICK note
   has duration 0 and every HOLD note has duration end_time - start_time,
   which is above 0. *)
C20_NoteTypesAndDurations ==
    [][/\ NoteCommandTypes
       /\ Deliver =>
              \A l \in DOMAIN chart.judge_lines :
                  \A i \in 1..Len(chart.judge_lines[l].pec_notes) :
                      Durations(chart'.lines[l].notes[i], chart.judge_lines[l].pec_notes[i], TRUE)]_vars

(* The same, a duration above 0 for the HOLD notes that end after they start
   and at a time other than 0, which `end_time or time` takes for None. *)
C20_DurationsOfHoldsEndingLater ==
    [][/\ NoteCommandTypes
       /\ Deliver =>
              \A l \in DOMAIN chart.judge_lines :
                  \A i \in 1..Len(chart.judge_lines[l].pec_notes) :
                      Durations(chart'.lines[l].notes[i], chart.judge_lines[l].pec_notes[i],
                                /\ chart.judge_lines[l].pec_notes[i].end_time[1]
                                       > chart.judge_lines[l].pec_notes[i].time
                                /\ chart.judge_lines[l].pec_notes[i].end_time[1] # 0)]_vars

----------------------------------------------------------------------------
(* src/main.py: planning in MainWindow.autoplay and MainWindow.process      *)
(*                                                                          *)
(* The cache manager keeps one entry of bytes for a chart text.  The        *)
(* planner is a function of the chart, which loadChart builds from the      *)
(* text and the aspect ratio, of the algorithm tab and of the options; the  *)
(* plans of different arguments differ.  What the user has selected when a  *)
(* handler runs is an input of the handler.                                 *)

Contents == {1, 2}
AlgoIndexes == {0, 1}
AspectRatios == {0, 1}
SampleDelays == {1, 2}

(* MainWindow.loadChart: the text and the ratio of the chart *)
loadChart(content, aspect) ==
    [content |-> content, ratio |-> IF aspect = 0 THEN <<16, 9>> ELSE <<4, 3>>]

(* MainWindow.getAlgorithmConfigureDict *)
getAlgorithmConfigureDict(sample_delay) == [algo1_sample_delay |-> sample_delay]

(* algo.solve(chart, configure, console) of algo1 or algo2: a screen of the
   chart's ratio and one frame that tells the text, the algorithm and the
   options apart. *)
solve(algoIndex, ch, configure) ==
    [screen |-> [width |-> U32(0, 120 * ch.ratio[1]), height |-> U32(0, 120 * ch.ratio[2])],
     ans |-> <<<<1000 * ch.content + 100 * algoIndex + configure.algo1_sample_delay,
                 GenEvents(1)>>>>]

(* CacheManager.find_cache_for_content and write_cache_of_content *)
find_cache_for_content(entries, content) ==
    IF content \in DOMAIN entries
    THEN [found |-> TRUE, data |-> entries[content]]
    ELSE [found |-> FALSE, data |-> <<>>]
write_cache_of_content(entries, content, data) ==
    [c \in (DOMAIN entries) \cup {content} |-> IF c = content THEN data ELSE entries[c]]

(* The run of a handler: what it was called with, whether it called the
   planner, and the screen and timeline it went on with. *)
Run(handler, content, prefer, algoIndex, aspect, sample_delay, solved, plan) ==
    [handler |-> handler, content |-> content, preferCache |-> prefer,
     algoIndex |-> algoIndex, aspect |-> aspect, sample_delay |-> sample_delay,
     solved |-> solved, screen |-> plan.screen, ans |-> plan.ans]

NoPlan == [screen |-> [width |-> U32(0, 0), height |-> U32(0, 0)], ans |-> <<>>]

(* MainWindow.autoplay, lines 798 to 819, with the planner's result *)
autoplay_solved(p, content, prefer, algoIndex, aspect, sample_delay, plan) ==
    [p EXCEPT !.cache = write_cache_of_content(p.cache, content,
                                               dump_data(plan.screen, plan.ans)),
              !.autoplayed = @ \cup {content},
              !.last = Run("autoplay", content, prefer, algoIndex, aspect, sample_delay,
                           TRUE, plan)]

(* MainWindow.autoplay, lines 798 to 810, with the cache data found *)
autoplay_cached(p, content, prefer, algoIndex, aspect, sample_delay, data) ==
    IF data.ok
    THEN [p EXCEPT !.autoplayed = @ \cup {content},
                   !.last = Run("autoplay", content, prefer, algoIndex, aspect, sample_delay,
                                FALSE, [screen |-> [width |-> data.width, height |-> data.height],
                                        ans |-> data.ans])]
    ELSE [p EXCEPT !.autoplayed = @ \cup {content},
                   !.last = Run("raised", content, prefer, algoIndex, aspect, sample_delay,
                                FALSE, NoPlan)]

autoplay_found(p, content, prefer, algoIndex, aspect, sample_delay, cacheData) ==
    IF cacheData.found
    THEN autoplay_cached(p, content, prefer, algoIndex, aspect, sample_delay,
                         load_data(cacheData.data))
    ELSE autoplay_solved(p, content, prefer, algoIndex, aspect, sample_delay,
                         solve(algoIndex, loadChart(content, aspect),
                               getAlgorithmConfigureDict(sample_delay)))

(* MainWindow.autoplay without the lookup of line 807 *)
autoplay_unconditional(p, content, prefer, algoIndex, aspect, sample_delay) ==
    autoplay_found(p, content, prefer, algoIndex, aspect, sample_delay,
                   [found |-> FALSE, data |-> <<>>])

autoplay(p, content, prefer, algoIndex, aspect, sample_delay) ==
    autoplay_found(p, content, prefer, algoIndex, aspect, sample_delay,
                   IF prefer THEN find_cache_for_content(p.cache, content)
                   ELSE [found |-> FALSE, data |-> <<>>])

(* MainWindow.process *)
process_solved(p, content, algoIndex, aspect, sample_delay, save, plan) ==
    [p EXCEPT !.cache = IF save
                        THEN write_cache_of_content(p.cache, content,
                                                    dump_data(plan.screen, plan.ans))
                        ELSE @,
              !.last = Run("process", content, FALSE, algoIndex, aspect, sample_delay,
                           TRUE, plan)]
process(p, content, algoIndex, aspect, sample_delay, save) ==
    process_solved(p, content, algoIndex, aspect, sample_delay, save,
                   solve(algoIndex, loadChart(content, aspect),
                         getAlgorithmConfigureDict(sample_delay)))

(* MainWindow.__init__: CacheManager(), nothing run yet; the cache directory
   is empty. *)
NewPlanning ==
    [pc |-> "shown", cache |-> <<>>, autoplayed |-> {},
     last |-> Run("none", 0, FALSE, 0, 0, 0, FALSE, NoPlan)]

PlanInit ==
    /\ joints = <<>>
    /\ last = NoCall
    /\ legit = TRUE
    /\ screen = [width |-> U32(0, 0), height |-> U32(0, 0)]
    /\ timeline = <<>>
    /\ blob = <<>>
    /\ loaded = NotLoaded
    /\ cpc = "idle"
    /\ geo = NoGeo
    /\ chart = NoChart
    /\ planning = NewPlanning
    /\ window = NoWindow

(* goButton: Prepare / Go *)
AutoplayPlan(content, prefer, algoIndex, aspect, sample_delay) ==
    /\ planning.pc = "shown"
    /\ planning' = autoplay(planning, content, prefer, algoIndex, aspect, sample_delay)
    /\ UNCHANGED <<bambooVars, cacheVars, geomVars, pecVars, window>>

(* testButton: Execute *)
Process(content, algoIndex, aspect, sample_delay, save) ==
    /\ planning.pc = "shown"
    /\ planning' = process(planning, content, algoIndex, aspect, sample_delay, save)
    /\ UNCHANGED <<bambooVars, cacheVars, geomVars, pecVars, window>>

PlanNext ==
    \/ \E content \in Contents, prefer \in BOOLEAN, algoIndex \in AlgoIndexes,
          aspect \in AspectRatios, sample_delay \in SampleDelays :
          AutoplayPlan(content, prefer, algoIndex, aspect, sample_delay)
    \/ \E content \in Contents, algoIndex \in AlgoIndexes, aspect \in AspectRatios,
          sample_delay \in SampleDelays, save \in BOOLEAN :
          Process(content, algoIndex, aspect, sample_delay, save)

PlanSpec == PlanInit /\ [][PlanNext]_vars

(* C21: the cache skips re-planning. With preferCache checked autoplay calls
   the planner if and only if the cache has no entry for the chart's text; on
   a miss the planner's result is written to the cache under that text, so
   the second and later autoplay calls on the same text with preferCache
   checked never call the planner. With preferCache unchecked the planner is
   always called and its result overwrites the entry. *)
C21_CacheSkipsPlanning ==
    [][planning'.last.handler \in {"autoplay", "raised"} =>
          /\ planning'.last.solved
                 <=> (~planning'.last.preferCache
                      \/ planning'.last.content \notin DOMAIN planning.cache)
          /\ planning'.last.solved =>
                 /\ planning'.last.content \in DOMAIN planning'.cache
                 /\ planning'.cache[planning'.last.content]
                        = dump_data(planning'.last.screen, planning'.last.ans)
                 /\ planning'.last.ans
                        = solve(planning'.last.algoIndex,
                                loadChart(planning'.last.content, planning'.last.aspect),
                                getAlgorithmConfigureDict(planning'.last.sample_delay)).ans
          /\ (planning'.last.preferCache /\ planning'.last.content \in planning.autoplayed)
                 => ~planning'.last.solved]_vars

(* A second autoplay on a text, with preferCache checked, served from the cache *)
C21_Witness ==
    /\ planning.pc = "shown"
    /\ planning.last.handler = "autoplay"
    /\ planning.last.preferCache
    /\ ~planning.last.solved
    /\ planning.last.content \in planning.autoplayed
    /\ planning.last.ans # <<>>

(* C26: the timeline autoplay replays is the one the currently selected
   algorithm, with the currently entered options and aspect ratio, produces
   for the loaded chart, whatever the user changed between the runs. *)
C26_ReplaysSelectedPlan ==
    planning.last.handler = "autoplay" =>
        /\ planning.last.ans
               = solve(planning.last.algoIndex,
                       loadChart(planning.last.content, planning.last.aspect),
                       getAlgorithmConfigureDict(planning.last.sample_delay)).ans
        /\ planning.last.screen
               = solve(planning.last.algoIndex,
                       loadChart(planning.last.content, planning.last.aspect),
                       getAlgorithmConfigureDict(planning.last.sample_delay)).screen

(* C26, the part that holds: a run that called the planner replays the plan
   of the current selection. *)
C26_SolvedRunsReplaySelectedPlan ==
    (planning.last.handler = "autoplay" /\ planning.last.solved) =>
        planning.last.ans
            = solve(planning.last.algoIndex,
                    loadChart(planning.last.content, planning.last.aspect),
                    getAlgorithmConfigureDict(planning.last.sample_delay)).ans

----------------------------------------------------------------------------
(* src/main.py: the autoplay workers and goButton                           *)
(*                                                                          *)
(* window holds the GUI thread's objects and the workers' threads.  The     *)
(* GUI thread runs one handler at a time; a worker's run() advances one     *)
(* statement at a time between them.  Times are milliseconds of             *)
(* time.monotonic() * 1000, exact.  A slot is [slot, of]: the method and    *)
(* the worker it is bound to (0 for a method of the window).                *)

MaxWorkers == 2
MaxClock == 3

(* adaptedAns of controller.preprocess: frames of <<timestamp, number of events>> *)
Answers == {<<>>, <<<<2, 2>>, <<3, 1>>>>}
PlaySpeeds == {IntRat(1), IntRat(2)}
DelayValues == {0, -2}
SyncModes == {0, 1}
Backends == {0, 1}

Slot(slot, of) == [slot |-> slot, of |-> of]

(* The constructor keeping defaultOffset as it is given *)
AutoplayWorker_unscaled(kind, ans, defaultOffset, playSpeed) ==
    [kind |-> kind, ans |-> ans, it |-> 0, delayMs |-> 0,
     defaultOffset |-> IntRat(defaultOffset), playSpeed |-> playSpeed,
     initialOffset |-> defaultOffset,
     thread |-> "new", running |-> <<>>, startTime |-> <<>>, began |-> <<>>,
     now |-> <<>>, touched |-> 0, sent |-> <<>>,
     starts |-> 0, finished |-> <<>>, limit |-> <<>>]

(* AutoplayScrcpyWorker.__init__ (kind 0) and AutoplayHIDWorker.__init__
   (kind 1).  thread is the position of the thread: "new", "started" (start()
   was called), "next", "loop", "touch" inside run(), "returned", "finished".
   initialOffset, began, starts and limit record the history. *)
AutoplayWorker(kind, ans, defaultOffset, playSpeed) ==
    [kind |-> kind, ans |-> ans, it |-> 0, delayMs |-> 0,
     defaultOffset |-> QDiv(IntRat(defaultOffset), playSpeed), playSpeed |-> playSpeed,
     initialOffset |-> defaultOffset,
     thread |-> "new", running |-> <<>>, startTime |-> <<>>, began |-> <<>>,
     now |-> <<>>, touched |-> 0, sent |-> <<>>,
     starts |-> 0, finished |-> <<>>, limit |-> <<>>]

(* A worker nothing refers to any more, after its thread has finished *)
Retired == [AutoplayWorker(0, <<>>, 0, IntRat(1)) EXCEPT !.thread = "retired"]

(* now of line 146 / 193 *)
PlaybackNow(worker, clock) ==
    QAdd(QMul(QSub(IntRat(clock), worker.startTime), worker.playSpeed),
         IntRat(worker.delayMs))

(* next(self.ansIter) inside the try: the next frame, or StopIteration caught *)
next_frame(worker) ==
    IF worker.it < Len(worker.ans)
    THEN [worker EXCEPT !.it = @ + 1, !.thread = "loop", !.now = <<>>, !.touched = 0]
    ELSE [worker EXCEPT !.thread = "returned", !.now = <<>>, !.touched = 0]

(* The frame of the last event sent, 0 when none was *)
LastFrame(sent) == IF sent = <<>> THEN 0 ELSE sent[Len(sent)][1]

(* run(), line 141 / 188 *)
run_begin(worker) == [worker EXCEPT !.running = <<TRUE>>, !.thread = "next"]

(* run(), lines 142-143 / 189-190, with a frame in the timeline *)
run_first(worker, clock) ==
    [worker EXCEPT !.it = 1,
                   !.startTime = QAdd(IntRat(clock), worker.defaultOffset),
                   !.began = <<clock>>,
                   !.thread = "loop"]

(* run(), lines 145-147 / 192-194 *)
run_test(worker, clock) ==
    IF worker.running # <<TRUE>>
    THEN [worker EXCEPT !.thread = "returned"]
    ELSE IF QLe(IntRat(worker.ans[worker.it][1]), PlaybackNow(worker, clock))
         THEN [worker EXCEPT !.thread = "touch", !.now = <<PlaybackNow(worker, clock)>>]
         ELSE worker

(* run(), lines 148-150: one controller.touch, and next() after the last;
   lines 195-196: controller.send(events) and next() *)
run_touch(worker) ==
    IF worker.kind = 1
    THEN next_frame([worker EXCEPT !.sent =
             @ \o [j \in 1..worker.ans[worker.it][2] |-> <<worker.it, j>>]])
    ELSE IF worker.touched < worker.ans[worker.it][2]
         THEN IF worker.touched + 1 = worker.ans[worker.it][2]
              THEN next_frame([worker EXCEPT !.sent =
                                   Append(@, <<worker.it, worker.touched + 1>>)])
              ELSE [worker EXCEPT !.sent = Append(@, <<worker.it, worker.touched + 1>>),
                                  !.touched = @ + 1]
         ELSE next_frame(worker)

(* stop(); limit records, at the first call after start(), the last frame
   that may still be dispatched: the one in dispatch, else the next one. *)
stop(worker) ==
    [worker EXCEPT !.running = <<FALSE>>,
                   !.limit = IF @ = <<>> /\ worker.thread \notin {"new", "retired"}
                             THEN <<[frame |-> IF worker.thread = "touch" /\ worker.touched > 0
                                               THEN LastFrame(worker.sent)
                                               ELSE LastFrame(worker.sent) + 1,
                                     early |-> worker.thread = "started"]>>
                             ELSE @]

(* onDelayChanged(delay) *)
onDelayChanged(worker, delay) == [worker EXCEPT !.delayMs = delay]

(* QThread.start(): starts the thread unless it is running *)
start(worker) ==
    [worker EXCEPT !.starts = @ + 1,
                   !.thread = IF @ \in {"new", "finished"} THEN "started" ELSE @]

(* MainWindow.__init__, lines 295 and 530 *)
NewWindow ==
    [pc |-> "shown", gui |-> "loop", pending |-> <<>>, queue |-> <<>>,
     clicked |-> <<Slot("autoplay", 0)>>, valueChanged |-> <<>>,
     autoplayWorker |-> 0, workers |-> <<>>,
     delayInput |-> 0, lastDelayValue |-> 0, clock |-> 0]

(* delayInput.setValue(value): valueChanged reaches the connected slots when
   the value changes. *)
setValue(w, value) ==
    IF value = w.delayInput THEN w
    ELSE [w EXCEPT !.delayInput = value,
                   !.workers = [k \in DOMAIN w.workers |->
                                   IF \E i \in DOMAIN w.valueChanged : w.valueChanged[i].of = k
                                   THEN onDelayChanged(w.workers[k], value)
                                   ELSE w.workers[k]]]

(* signal.disconnect(slot): the first connection of the slot *)
RECURSIVE disconnect(_, _)
disconnect(slots, slot) ==
    IF slots = <<>> THEN <<>>
    ELSE IF Head(slots) = slot THEN Tail(slots)
         ELSE <<Head(slots)>> \o disconnect(Tail(slots), slot)

(* An exception that leaves a slot or run(): PyQt5 from 5.5 on ends the
   process, older versions print the traceback and go on. *)
Outcomes == {"abort", "printed"}
Unhandled(w, outcome) == IF outcome = "abort" THEN [w EXCEPT !.pc = "aborted"] ELSE w

(* MainWindow.prepareBeforeAutoplay, line 860 *)
prepare_start(w) ==
    [w EXCEPT !.workers[w.autoplayWorker] = start(@), !.gui = "prepare"]

(* MainWindow.prepareBeforeAutoplay, lines 861-869, leaving goButton's
   connections in place *)
prepare_connect_keeping(w) ==
    [setValue([w EXCEPT !.workers[w.autoplayWorker].finished =
                            Append(@, Slot("cleanAfterAutoplay", 0)),
                        !.clicked = Append(@, Slot("stop", w.autoplayWorker)),
                        !.gui = "loop"], 0)
     EXCEPT !.valueChanged = Append(@, Slot("onDelayChanged", w.autoplayWorker))]

(* MainWindow.prepareBeforeAutoplay, lines 861-869 *)
prepare_connect(w) ==
    [setValue([w EXCEPT !.workers[w.autoplayWorker].finished =
                            Append(@, Slot("cleanAfterAutoplay", 0)),
                        !.clicked = <<Slot("stop", w.autoplayWorker)>>,
                        !.gui = "loop"], 0)
     EXCEPT !.valueChanged = Append(@, Slot("onDelayChanged", w.autoplayWorker))]

(* MainWindow.autoplay, lines 847-855 *)
autoplay_worker(w, ans, syncMode, backend, playSpeed, delay) ==
    IF syncMode = 1
    THEN prepare_start([w EXCEPT !.workers = Append(@, AutoplayWorker(backend, ans, delay, playSpeed)),
                                 !.autoplayWorker = Len(w.workers) + 1])
    ELSE [w EXCEPT !.workers = Append(@, AutoplayWorker(backend, ans, delay, playSpeed)),
                   !.autoplayWorker = Len(w.workers) + 1]

(* MainWindow.autoplay, lines 821-855 *)
autoplay_window(w, ans, syncMode, backend, playSpeed, outcome) ==
    IF syncMode = 0
    THEN IF ans = <<>>
         THEN Unhandled(w, outcome)
         ELSE autoplay_worker([w EXCEPT !.lastDelayValue = w.delayInput,
                                        !.clicked = Append(disconnect(@, Slot("autoplay", 0)),
                                                           Slot("waitForBegin", 0))],
                              ans, syncMode, backend, playSpeed, -ans[1][1])
    ELSE autoplay_worker([w EXCEPT !.lastDelayValue = w.delayInput],
                         ans, syncMode, backend, playSpeed, w.delayInput)

(* waitForBegin, lines 833-836 *)
waitForBegin(w) == IF w.autoplayWorker = 0 THEN w ELSE prepare_start(w)

(* MainWindow.cleanAfterAutoplay *)
cleanAfterAutoplay(w, outcome) ==
    IF w.valueChanged = <<>>
    THEN Unhandled(setValue([w EXCEPT !.clicked = <<Slot("autoplay", 0)>>], w.lastDelayValue),
                   outcome)
    ELSE [setValue([w EXCEPT !.clicked = <<Slot("autoplay", 0)>>], w.lastDelayValue)
          EXCEPT !.valueChanged = <<>>,
                 !.autoplayWorker = 0,
                 !.workers = [k \in DOMAIN @ |->
                                 IF k = w.autoplayWorker /\ @[k].thread = "finished"
                                 THEN Retired ELSE @[k]]]

GuiInit ==
    /\ joints = <<>>
    /\ last = NoCall
    /\ legit = TRUE
    /\ screen = [width |-> U32(0, 0), height |-> U32(0, 0)]
    /\ timeline = <<>>
    /\ blob = <<>>
    /\ loaded = NotLoaded
    /\ cpc = "idle"
    /\ geo = NoGeo
    /\ chart = NoChart
    /\ planning = NoPlanning
    /\ window = NewWindow

Shown == window.pc = "shown"
(* The GUI thread is in its event loop, between two events *)
Idle == Shown /\ window.gui = "loop" /\ window.pending = <<>>
(* The GUI thread is emitting goButton.clicked and the next slot is due *)
Calling(slot) ==
    /\ Shown
    /\ window.gui = "loop"
    /\ window.pending # <<>>
    /\ Head(window.pending).slot = slot

GuiUnchanged == UNCHANGED <<bambooVars, cacheVars, geomVars, pecVars, planning>>

(* The user clicks goButton: clicked is emitted to the slots connected now *)
Click ==
    /\ Idle
    /\ window.clicked # <<>>
    /\ window' = [window EXCEPT !.pending = window.clicked]
    /\ GuiUnchanged

CallAutoplay(ans, syncMode, backend, playSpeed, outcome) ==
    /\ Calling("autoplay")
    /\ Len(window.workers) < MaxWorkers
    /\ window' = autoplay_window([window EXCEPT !.pending = Tail(@)],
                                 ans, syncMode, backend, playSpeed, outcome)
    /\ GuiUnchanged

CallWaitForBegin ==
    /\ Calling("waitForBegin")
    /\ window' = waitForBegin([window EXCEPT !.pending = Tail(@)])
    /\ GuiUnchanged

CallStop ==
    /\ Calling("stop")
    /\ window' = [window EXCEPT !.pending = Tail(@),
                                !.workers[Head(window.pending).of] = stop(@)]
    /\ GuiUnchanged

(* prepareBeforeAutoplay goes on after start() *)
PrepareConnect ==
    /\ Shown
    /\ window.gui = "prepare"
    /\ window' = prepare_connect(window)
    /\ GuiUnchanged

(* The user changes delayInput *)
SetDelay(delay) ==
    /\ Idle
    /\ delay # window.delayInput
    /\ window' = setValue(window, delay)
    /\ GuiUnchanged

(* The event loop delivers a queued finished signal *)
DeliverFinished(outcome) ==
    /\ Idle
    /\ window.queue # <<>>
    /\ window' = cleanAfterAutoplay([window EXCEPT !.queue = Tail(@)], outcome)
    /\ GuiUnchanged

(* time.monotonic() advances *)
Tick ==
    /\ Shown
    /\ window.clock < MaxClock
    /\ window' = [window EXCEPT !.clock = @ + 1]
    /\ GuiUnchanged

At(k, thread) == Shown /\ k \in DOMAIN window.workers /\ window.workers[k].thread = thread

RunBegin(k) ==
    /\ At(k, "started")
    /\ window' = [window EXCEPT !.workers[k] = run_begin(@)]
    /\ GuiUnchanged

(* next() of line 142 / 189 is outside the try: StopIteration leaves run() *)
RunFirst(k, outcome) ==
    /\ At(k, "next")
    /\ window' = IF window.workers[k].ans = <<>>
                 THEN Unhandled([window EXCEPT !.workers[k].thread = "returned"], outcome)
                 ELSE [window EXCEPT !.workers[k] = run_first(@, window.clock)]
    /\ GuiUnchanged

RunTest(k) ==
    /\ At(k, "loop")
    /\ window' = [window EXCEPT !.workers[k] = run_test(@, window.clock)]
    /\ GuiUnchanged

RunTouch(k) ==
    /\ At(k, "touch")
    /\ window' = [window EXCEPT !.workers[k] = run_touch(@)]
    /\ GuiUnchanged

(* The thread ends: finished is emitted and queued for the slots connected now *)
RunFinish(k) ==
    /\ At(k, "returned")
    /\ window' = [window EXCEPT !.workers[k].thread = "finished",
                                !.queue = @ \o window.workers[k].finished]
    /\ GuiUnchanged

WorkerStep(k) ==
    \/ RunBegin(k)
    \/ \E outcome \in Outcomes : RunFirst(k, outcome)
    \/ RunTest(k)
    \/ RunTouch(k)
    \/ RunFinish(k)

GuiNext ==
    \/ Click
    \/ \E ans \in Answers, syncMode \in SyncModes, backend \in Backends,
          playSpeed \in PlaySpeeds, outcome \in Outcomes :
          CallAutoplay(ans, syncMode, backend, playSpeed, outcome)
    \/ CallWaitForBegin
    \/ CallStop
    \/ PrepareConnect
    \/ \E delay \in DelayValues : SetDelay(delay)
    \/ \E outcome \in Outcomes : DeliverFinished(outcome)
    \/ Tick
    \/ \E k \in 1..MaxWorkers : WorkerStep(k)

GuiSpec == GuiInit /\ [][GuiNext]_vars

(* The events of a timeline in the order of the timeline, as <<frame, event>> *)
RECURSIVE Dispatches(_, _)
Dispatches(ans, n) ==
    IF n = 0 THEN <<>>
    ELSE Dispatches(ans, n - 1) \o [j \in 1..ans[n][2] |-> <<n, j>>]

(* What a worker has sent is the beginning of its timeline's events, in
   timeline order and each once *)
InTimelineOrder(worker) ==
    /\ Len(worker.sent) <= Len(Dispatches(worker.ans, Len(worker.ans)))
    /\ \A i \in 1..Len(worker.sent) :
           worker.sent[i] = Dispatches(worker.ans, Len(worker.ans))[i]

(* The playback clock: elapsed_ms * playSpeed - initialOffset + delayMs *)
PlaybackClock(worker, clock) ==
    QAdd(QSub(QMul(IntRat(clock - worker.began[1]), worker.playSpeed),
              IntRat(worker.initialOffset)),
         IntRat(worker.delayMs))

(* C22: replay ordering. A worker sends the frames of its timeline in
   timeline order, each at most once and all events of a frame before any of
   the next, and it sends an event of frame i only at a moment when the
   playback clock, with the delayMs of that moment, is at or past the frame's
   timestamp. *)
C22_ReplayOrdering ==
    /\ [](\A k \in DOMAIN window.workers : InTimelineOrder(window.workers[k]))
    /\ [][\A k \in DOMAIN window.workers :
              Len(window'.workers[k].sent) > Len(window.workers[k].sent) =>
                  QLe(IntRat(window.workers[k].ans[window.workers[k].it][1]),
                      PlaybackClock(window.workers[k], window.clock))]_vars

(* C22 as it holds: the order is as stated, and a frame is sent only after
   the worker read a time and a delayMs for which the playback clock was at
   or past the frame's timestamp; delayMs may have changed since. *)
C22_ReplayOrderingAfterDueReading ==
    /\ [](\A k \in DOMAIN window.workers : InTimelineOrder(window.workers[k]))
    /\ [][\A k \in DOMAIN window.workers :
              /\ (window.workers[k].thread = "loop" /\ window'.workers[k].thread = "touch") =>
                     /\ window'.workers[k].now
                            = <<PlaybackClock(window.workers[k], window.clock)>>
                     /\ QLe(IntRat(window.workers[k].ans[window.workers[k].it][1]),
                            PlaybackClock(window.workers[k], window.clock))
              /\ Len(window'.workers[k].sent) > Len(window.workers[k].sent) =>
                     /\ window.workers[k].thread = "touch"
                     /\ window.workers[k].now # <<>>
                     /\ QLe(IntRat(window.workers[k].ans[window.workers[k].it][1]),
                            window.workers[k].now[1])]_vars

(* A worker played at double speed with a changed delay has sent its whole
   timeline *)
C22_Witness ==
    \E k \in DOMAIN window.workers :
        /\ window.workers[k].thread = "finished"
        /\ window.workers[k].ans # <<>>
        /\ window.workers[k].sent
               = Dispatches(window.workers[k].ans, Len(window.workers[k].ans))
        /\ window.workers[k].delayMs # 0
        /\ window.workers[k].initialOffset # 0
        /\ window.workers[k].playSpeed = IntRat(2)

(* C23: a stop request is never lost. After stop() was called on a worker
   whose thread was started, in any interleaving with run(), the worker
   dispatches at most the frame it is dispatching and no frame afterwards. *)
C23_StopNeverLost ==
    \A k \in DOMAIN window.workers :
        window.workers[k].limit # <<>> =>
            LastFrame(window.workers[k].sent) <= window.workers[k].limit[1].frame

(* C23, the part that holds: a stop() made after run() executed its first
   statement is obeyed. *)
C23_StopAfterRunBeganObeyed ==
    \A k \in DOMAIN window.workers :
        (window.workers[k].limit # <<>> /\ ~window.workers[k].limit[1].early) =>
            LastFrame(window.workers[k].sent) <= window.workers[k].limit[1].frame

(* The threads are scheduled, the GUI thread goes on with the handler it is
   in, and time advances.  The event loop takes its events in the order they
   were posted, so a queued signal is delivered however often the user
   clicks; the user is not obliged to do anything. *)
GuiFairness ==
    /\ \A k \in 1..MaxWorkers : WF_vars(WorkerStep(k))
    /\ WF_vars(PrepareConnect)
    /\ WF_vars(CallWaitForBegin)
    /\ WF_vars(CallStop)
    /\ SF_vars(\E outcome \in Outcomes : DeliverFinished(outcome))
    /\ WF_vars(Tick)

GuiFairSpec == GuiInit /\ [][GuiNext]_vars /\ GuiFairness

Ended(k) ==
    /\ k \in DOMAIN window.workers
    /\ window.workers[k].thread \in {"returned", "finished"}

ReturnedToIdle ==
    /\ window.autoplayWorker = 0
    /\ window.clicked = <<Slot("autoplay", 0)>>

(* Return to idle with no exception made for a process that was ended: the
   strictest reading of C24. *)
C24_ReturnToIdle == (\E k \in 1..MaxWorkers : Ended(k)) ~> ReturnedToIdle

(* C24: return to idle, as long as the process lives. Whenever a worker's
   run() has ended, the main window eventually executes cleanAfterAutoplay,
   after which autoplayWorker is None and goButton triggers autoplay again,
   unless an unhandled exception ended the process. *)
C24_ReturnToIdleUnlessAborted ==
    (Shown /\ \E k \in 1..MaxWorkers : Ended(k)) ~> (ReturnedToIdle \/ ~Shown)

(* C24, the part that holds: a worker that ends with finished connected is
   cleaned up, unless the process was ended. *)
C24_ConnectedWorkerReturnsToIdle ==
    (Shown /\ \E k \in 1..MaxWorkers :
                  /\ k \in DOMAIN window.workers
                  /\ window.workers[k].thread = "returned"
                  /\ window.workers[k].finished # <<>>)
        ~> (ReturnedToIdle \/ ~Shown)

(* The worker's thread was started and has not finished *)
Running(k) ==
    /\ k \in DOMAIN window.workers
    /\ window.workers[k].thread \in {"started", "next", "loop", "touch", "returned"}

(* C25: single replay at a time. Whenever the GUI thread can take a click,
   goButton is wired to exactly one of autoplay (idle), waitForBegin
   (prepared) or the current worker's stop (playing); while a worker thread
   is running a click can only call stop, autoplay is not entered, no second
   worker is created or started, and each worker is started at most once. *)
C25_SingleReplay ==
    Shown =>
        /\ Idle =>
               \/ /\ window.clicked = <<Slot("autoplay", 0)>>
                  /\ window.autoplayWorker = 0
               \/ /\ window.clicked = <<Slot("waitForBegin", 0)>>
                  /\ window.autoplayWorker # 0
                  /\ window.workers[window.autoplayWorker].thread = "new"
               \/ /\ window.clicked = <<Slot("stop", window.autoplayWorker)>>
                  /\ window.autoplayWorker # 0
                  /\ window.workers[window.autoplayWorker].starts = 1
        /\ \A k \in DOMAIN window.workers :
               /\ window.workers[k].starts <= 1
               /\ Running(k) =>
                      /\ k = window.autoplayWorker
                      /\ Idle => window.clicked = <<Slot("stop", k)>>
                      /\ \A i \in DOMAIN window.pending :
                             window.pending[i] = Slot("stop", k)
                      /\ \A j \in DOMAIN window.workers :
                             j # k => window.workers[j].thread \in {"retired", "finished"}

(* The second worker of a session is sending while goButton is wired to its stop *)
C25_Witness ==
    /\ Idle
    /\ Len(window.workers) = 2
    /\ window.workers[1].thread = "retired"
    /\ window.workers[2].thread = "touch"
    /\ window.workers[2].starts = 1
    /\ window.clicked = <<Slot("stop", 2)>>

----------------------------------------------------------------------------
(* src/pec.py: the tempo map *)

QueryBeats == 0..3

StrictlyIncreasing(bpss) ==
    \A i \in 1..(Len(bpss) - 1) : bpss[i].beats < bpss[i + 1].beats

(* C27: the PEC beat-to-time map. After bp events with strictly increasing
   beats and positive bpm the first event's beat maps to 0 seconds, each
   later entry starts at the previous entry's start plus the beat difference
   over the previous beats per second, _beats_to_seconds is non-decreasing in
   beats and continuous at every tempo change, and a beat before the first
   event's, or any beat without a bp event, raises an error. *)
C27_BeatToTimeMap ==
    (chart.pc \in {"reading", "delivered"} /\ StrictlyIncreasing(chart.bpss)) =>
        /\ chart.bpss = <<>> =>
               \A b \in QueryBeats : _beats_to_seconds(chart.bpss, b) = NoSeconds
        /\ chart.bpss # <<>> =>
               /\ _beats_to_seconds(chart.bpss, chart.bpss[1].beats) = 0
               /\ \A i \in 2..Len(chart.bpss) :
                      /\ (chart.bpss[i].time - chart.bpss[i - 1].time) * chart.bpss[i - 1].bps.num
                             = (chart.bpss[i].beats - chart.bpss[i - 1].beats)
                                   * TicksPerSecond * chart.bpss[i - 1].bps.den
                      /\ BeatsFrom(chart.bpss, i - 1, chart.bpss[i].beats) = chart.bpss[i].time
               /\ \A b \in QueryBeats :
                      IF b < chart.bpss[1].beats
                      THEN _beats_to_seconds(chart.bpss, b) = NoSeconds
                      ELSE /\ _beats_to_seconds(chart.bpss, b) # NoSeconds
                           /\ \A later \in QueryBeats :
                                  b <= later =>
                                      _beats_to_seconds(chart.bpss, b)
                                          <= _beats_to_seconds(chart.bpss, later)

(* Three bp events at increasing beats, the second changing the tempo *)
C27_Witness ==
    /\ chart.pc = "reading"
    /\ Len(chart.bpss) = 3
    /\ StrictlyIncreasing(chart.bpss)
    /\ chart.bpss[1].bps # chart.bpss[2].bps
    /\ chart.bpss[2].bps # chart.bpss[3].bps

----------------------------------------------------------------------------
(* src/bamboo.py: the frame of embed *)

(* The joints of js that are at neither ts nor te, in their order *)
Others(js, ts, te) ==
    LET Elsewhere(j) == ~equal(j.timestamp, ts) /\ ~equal(j.timestamp, te)
    IN SelectSeq(js, Elsewhere)

(* The joints of js at or before t: the last of them governs the interval of t *)
UpTo(js, t) == {i \in 1..Len(js) : js[i].timestamp <= t}

(* Some joint of js lies between ts and te and is at neither *)
StrictlyBetween(js, ts, te) ==
    \E i \in 1..Len(js) :
        /\ ts < js[i].timestamp
        /\ js[i].timestamp < te
        /\ ~equal(js[i].timestamp, ts)
        /\ ~equal(js[i].timestamp, te)

EmbedFrame(js, after, ts, te) ==
    /\ Len(after) = Len(js) + (IF Hits(js, ts) = {} THEN 1 ELSE 0)
                            + (IF Hits(js, te) = {} THEN 1 ELSE 0)
    /\ Others(after, ts, te) = Others(js, ts, te)
    /\ (Hits(js, te) = {} /\ UpTo(js, te) # {}) =>
           \E i \in 1..Len(after) :
               /\ after[i].timestamp = te
               /\ after[i].easing
                      = js[CHOOSE k \in UpTo(js, te) : \A m \in UpTo(js, te) : m <= k].easing

(* C28: the frame effect of embed. For embed(ts, te, ve, e) with ts < te on
   a non-empty track with no joint strictly between ts and te, the joints
   grow by 2 when neither ts nor te is equal() to an existing joint's
   timestamp, by 1 when exactly one is and by 0 when both are; every other
   joint keeps its timestamp, value, easing and relative order, and the
   inserted end joint carries the easing that governed the interval
   containing te. *)
C28_EmbedFrame ==
    [][(/\ last'.op = "embed"
        /\ last'.a < last'.b
        /\ Len(joints) > 0
        /\ IsTrack(joints)
        /\ ~StrictlyBetween(joints, last'.a, last'.b))
       => (~last'.raised /\ EmbedFrame(joints, joints', last'.a, last'.b))
    ]_vars

(* C28 for calls whose ts and te are not equal() to each other and are equal()
   to a joint only where they are its timestamp. *)
C28_EmbedFrameOfExactTimes ==
    [][(/\ last'.op = "embed"
        /\ last'.a < last'.b
        /\ ~equal(last'.a, last'.b)
        /\ Len(joints) > 0
        /\ IsTrack(joints)
        /\ ~StrictlyBetween(joints, last'.a, last'.b)
        /\ \A i \in Hits(joints, last'.a) : joints[i].timestamp = last'.a
        /\ \A i \in Hits(joints, last'.b) : joints[i].timestamp = last'.b)
       => (~last'.raised /\ EmbedFrame(joints, joints', last'.a, last'.b))
    ]_vars

====
